---- MODULE Spec2Model ----
(***************************************************************************)
(* CntxtCS.py: the C# knowledge-graph extractor (class                     *)
(* CSCodeKnowledgeGraph).                                                  *)
(*                                                                         *)
(* Text is modelled as a sequence of lexemes.  A lexeme is a string that   *)
(* stands for one unit of source text: a blank, a punctuation character,   *)
(* or a run of word characters (an identifier or keyword).  Two adjacent   *)
(* word lexemes read as one longer word, as they would in the text.  A     *)
(* Python str taken from the text (a regex group, a slice) is the          *)
(* sub-sequence of lexemes it covers; string concatenation is \o.          *)
(* Positions are 1-based: Python's content[i] is content[i + 1] here.      *)
(***************************************************************************)
EXTENDS Integers, Sequences, FiniteSets, TLC


(***************************************************************************)
(* Lexeme classes of the regular expressions.                              *)
(***************************************************************************)
\* \s
WsLex == {" ", "\n"}

\* every punctuation lexeme the inputs use; anything else that is not a
\* blank is a run of \w characters
PunctLex == {"{", "}", "(", ")", "<", ">", "[", "]", ";", ":", ",", "=", ".", "\"", "/"}

IsWs(c) == c \in WsLex

\* \w
IsWord(c) == c \notin WsLex /\ c \notin PunctLex

\* the character classes of the patterns: whether \w is in the class, and
\* the other lexemes in it
\* \w
Word == [word |-> TRUE, others |-> {}]

\* [\w\<\>\[\]]
TypeChar == [word |-> TRUE, others |-> {"<", ">", "[", "]"}]

\* [\w\.]
Dotted == [word |-> TRUE, others |-> {"."}]

\* [\w,\s]
Inherit == [word |-> TRUE, others |-> {",", " ", "\n"}]

InClass(cls, c) == c \in cls.others \/ (cls.word /\ IsWord(c))

\* the first position >= i of t that is not in the class (Len(t) + 1 when
\* the run reaches the end): where a greedy X* or X+ started at i stops
RunEnd(t, i, cls) ==
    IF i > Len(t) THEN i
    ELSE CHOOSE j \in i..(Len(t) + 1) :
             /\ j = Len(t) + 1 \/ ~InClass(cls, t[j])
             /\ \A k \in i..(j - 1) : InClass(cls, t[k])

\* where \s* started at i stops
SkipWs(t, i) == RunEnd(t, i, [word |-> FALSE, others |-> WsLex])

\* t[a .. b-1]
Slice(t, a, b) == SubSeq(t, a, b - 1)

\* str.strip()
RECURSIVE LStrip(_)
LStrip(s) == IF s # <<>> /\ IsWs(Head(s)) THEN LStrip(Tail(s)) ELSE s

RECURSIVE RStrip(_)
RStrip(s) ==
    IF s # <<>> /\ IsWs(s[Len(s)]) THEN RStrip(SubSeq(s, 1, Len(s) - 1)) ELSE s

Strip(s) == RStrip(LStrip(s))

\* the first position >= i of t holding lexeme c, 0 when there is none
IndexFrom(t, c, i) ==
    IF \E j \in i..Len(t) : t[j] = c
    THEN CHOOSE j \in i..Len(t) : t[j] = c /\ \A k \in i..(j - 1) : t[k] # c
    ELSE 0

\* str.split(sep) for a one-lexeme separator: the pieces, in order
RECURSIVE Split(_, _)
Split(s, sep) ==
    IF IndexFrom(s, sep, 1) = 0 THEN <<s>>
    ELSE <<SubSeq(s, 1, IndexFrom(s, sep, 1) - 1)>>
         \o Split(SubSeq(s, IndexFrom(s, sep, 1) + 1, Len(s)), sep)

(***************************************************************************)
(* _extract_block                                                          *)
(***************************************************************************)
\* the first position >= i of t holding a brace, Len(t) + 1 when none does
NextBrace(t, i) ==
    IF \E j \in i..Len(t) : t[j] \in {"{", "}"}
    THEN CHOOSE j \in i..Len(t) :
             t[j] \in {"{", "}"} /\ \A k \in i..(j - 1) : t[k] \notin {"{", "}"}
    ELSE Len(t) + 1

\* the loop of _extract_block from position i on, with the stack: the
\* position of the last character that block takes.  Between two braces
\* the loop only appends, so the recursion goes from brace to brace
RECURSIVE ExtractBlockLoop(_, _, _)
ExtractBlockLoop(content, i, stack) ==
    IF i > Len(content) THEN Len(content)
    ELSE IF content[i] = "{"
    THEN ExtractBlockLoop(content, i + 1, Append(stack, content[i]))
    ELSE IF content[i] = "}"
    THEN IF stack # <<>>
         THEN IF Len(stack) = 1
              THEN i
              ELSE ExtractBlockLoop(content, i + 1, Tail(stack))
         ELSE i
    ELSE IF stack = <<>>
    THEN i
    ELSE ExtractBlockLoop(content, NextBrace(content, i), stack)

\* a plausible slip: the block ends at the first closing brace
ExtractBlockFirstClose(content, start_index) ==
    IF IndexFrom(content, "}", start_index) = 0
    THEN SubSeq(content, start_index, Len(content))
    ELSE SubSeq(content, start_index, IndexFrom(content, "}", start_index))

ExtractBlock(content, start_index) ==
    SubSeq(content, start_index, ExtractBlockLoop(content, start_index, <<>>))

(***************************************************************************)
(* Matching.  A match in progress is a record: ok, whether the pattern has *)
(* matched so far; end, the position after the last lexeme it took         *)
(* (Python's match.end()); and the groups captured, by name.  Each step    *)
(* of a pattern takes the match so far and gives the match with the step   *)
(* added, so that a pattern reads from the inside out as the regular       *)
(* expression reads from left to right.                                    *)
(***************************************************************************)
\* Python's None and a str, where a group or an attribute holds either
PyNone == [some |-> FALSE, value |-> <<>>]

PyStr(s) == [some |-> TRUE, value |-> s]

NoMatch == [ok |-> FALSE]

\* the empty match at position i
Start(i) == [ok |-> TRUE, end |-> i]

At(t, i) == IF i >= 1 /\ i <= Len(t) THEN t[i] ELSE ""

\* alternation, and backtracking into an optional part: the first of the
\* two ways that matches
Either(a, b) == IF a.ok THEN a ELSE b

\* one literal lexeme
Lit(t, m, c) ==
    IF m.ok /\ At(t, m.end) = c THEN [m EXCEPT !.end = @ + 1] ELSE NoMatch

\* whether lexemes lit are at position q of t
LitAt(t, q, lit) ==
    q + Len(lit) - 1 <= Len(t) /\ SubSeq(t, q, q + Len(lit) - 1) = lit

\* literal lexemes
Lits(t, m, lit) ==
    IF m.ok /\ LitAt(t, m.end, lit) THEN [m EXCEPT !.end = @ + Len(lit)]
    ELSE NoMatch

\* \s*
Blanks(t, m) == IF m.ok THEN [m EXCEPT !.end = SkipWs(t, @)] ELSE NoMatch

\* \s+
Blanks1(t, m) ==
    IF m.ok /\ IsWs(At(t, m.end)) THEN [m EXCEPT !.end = SkipWs(t, @)]
    ELSE NoMatch

\* (X+) for a character class X
Group(t, m, cls, name) ==
    IF m.ok /\ RunEnd(t, m.end, cls) > m.end
    THEN (name :> Slice(t, m.end, RunEnd(t, m.end, cls)))
         @@ [m EXCEPT !.end = RunEnd(t, @, cls)]
    ELSE NoMatch

\* (kw1|kw2|...) taking its keyword
Keyword(t, m, kws, name) ==
    IF m.ok /\ At(t, m.end) \in kws
    THEN (name :> PyStr(<<t[m.end]>>)) @@ [m EXCEPT !.end = @ + 1]
    ELSE NoMatch

\* an optional group taking nothing
Absent(m, name) == IF m.ok THEN (name :> PyNone) @@ m ELSE NoMatch

\* (kw1|kw2|...)? before something that is none of the keywords: the group
\* takes its keyword when it is there
Optional(t, m, kws, name) == Either(Keyword(t, m, kws, name), Absent(m, name))

\* ([^c]*)c and ([\s\S]*?)c, with + for * when least is 1: the group ends
\* before the first c
UpTo(t, m, c, name, least) ==
    IF m.ok /\ IndexFrom(t, c, m.end) >= m.end + least
    THEN (name :> Slice(t, m.end, IndexFrom(t, c, m.end)))
         @@ [m EXCEPT !.end = IndexFrom(t, c, @) + 1]
    ELSE NoMatch

\* the position the match has reached, kept under a name
Mark(m, name) == IF m.ok THEN (name :> m.end) @@ m ELSE NoMatch

\* a group around the steps that lead from match from to match m
Span(t, from, m, name) ==
    IF m.ok THEN (name :> Slice(t, from.end, m.end)) @@ m ELSE NoMatch

(***************************************************************************)
(* _parse_single_parameter and _parse_parameters                           *)
(***************************************************************************)
ParamModifiers == {"ref", "out", "in", "params"}

\* ([\w\<\>\[\]]+)\s+(\w+)   after match m
TypeNameAt(t, m) == Group(t, Blanks1(t, Group(t, m, TypeChar, "type")), Word, "name")

\* re.match(r'(ref|out|in|params)\s+([\w\<\>\[\]]+)\s+(\w+)', param)
ModifierMatch(param) ==
    TypeNameAt(param,
        Blanks1(param, Keyword(param, Start(1), ParamModifiers, "modifier")))

\* where (.+) starts after '=' and \s*, from position p: \s* takes the
\* blanks, and gives blanks back until (.+) has a lexeme that is no line
\* break
DefaultStarts(t, p) ==
    {q \in p..(IF SkipWs(t, p) <= Len(t) THEN SkipWs(t, p) ELSE Len(t)) :
        t[q] # "\n"}

\* (.+) from position p: '.' stops at a line break
RestOfLine(t, p) ==
    Slice(t, p, IF IndexFrom(t, "\n", p) = 0 THEN Len(t) + 1
                ELSE IndexFrom(t, "\n", p))

\* \s*(.+)   after match m
DefaultValue(t, m) ==
    IF m.ok /\ DefaultStarts(t, m.end) # {}
    THEN ("value" :> RestOfLine(t, CHOOSE q \in DefaultStarts(t, m.end) :
                                       \A r \in DefaultStarts(t, m.end) : r <= q))
         @@ m
    ELSE NoMatch

\* re.match(r'([\w\<\>\[\]]+\s+\w+)\s*=\s*(.+)', param)
DefaultMatch(param) ==
    DefaultValue(param, Lit(param, Blanks(param, TypeNameAt(param, Start(1))), "="))

\* lines 571-583: the branch on the shape of the parameter
ParamShape(param, modifier_match, type_name_match) ==
    IF modifier_match.ok
    THEN ("modifier" :> modifier_match.modifier.value)
         @@ ("type" :> modifier_match.type) @@ ("name" :> modifier_match.name)
    ELSE IF type_name_match.ok
    THEN ("type" :> type_name_match.type) @@ ("name" :> type_name_match.name)
    ELSE ("name" :> Strip(param))

\* lines 585-588: the default value
ParamDefault(default_match) ==
    IF default_match.ok THEN ("default" :> Strip(default_match.value)) ELSE <<>>

ParseSingleParameter(param) ==
    ("definition" :> param)
    @@ ParamShape(param, ModifierMatch(param), TypeNameAt(param, Start(1)))
    @@ ParamDefault(DefaultMatch(param))

Brackets == {"<", "(", "[", "{", ">", ")", "]", "}"}

\* the first position >= i of t holding a bracket or a comma, Len(t) + 1
\* when none does
NextSeparator(t, i) ==
    IF \E j \in i..Len(t) : t[j] \in Brackets \cup {","}
    THEN CHOOSE j \in i..Len(t) :
             t[j] \in Brackets \cup {","}
             /\ \A k \in i..(j - 1) : t[k] \notin Brackets \cup {","}
    ELSE Len(t) + 1

\* if current_param.strip():
\*     params.append(self._parse_single_parameter(current_param.strip()))
AppendParameter(params, current_param) ==
    IF Strip(current_param) # <<>>
    THEN Append(params, ParseSingleParameter(Strip(current_param)))
    ELSE params

\* the loop of _parse_parameters from position i on.  Other characters are
\* only appended to current_param, so the recursion goes from one bracket
\* or comma to the next
RECURSIVE ParseParametersLoop(_, _, _, _, _)
ParseParametersLoop(params_str, i, depth, current_param, params) ==
    IF i > Len(params_str)
    THEN AppendParameter(params, current_param)
    ELSE IF params_str[i] \in {"<", "(", "[", "{"}
    THEN ParseParametersLoop(params_str, i + 1, depth + 1,
                             Append(current_param, params_str[i]), params)
    ELSE IF params_str[i] \in {">", ")", "]", "}"}
    THEN ParseParametersLoop(params_str, i + 1, depth - 1,
                             Append(current_param, params_str[i]), params)
    ELSE IF params_str[i] = "," /\ depth = 0
    THEN ParseParametersLoop(params_str, i + 1, depth, <<>>,
                             AppendParameter(params, current_param))
    ELSE IF params_str[i] = ","
    THEN ParseParametersLoop(params_str, i + 1, depth,
                             Append(current_param, params_str[i]), params)
    ELSE ParseParametersLoop(params_str, NextSeparator(params_str, i), depth,
             current_param
             \o Slice(params_str, i, NextSeparator(params_str, i)), params)

ParseParameters(params_str) ==
    IF params_str = <<>> THEN <<>>
    ELSE ParseParametersLoop(params_str, 1, 0, <<>>, <<>>)

(***************************************************************************)
(* The object: the fields of CSCodeKnowledgeGraph that extraction writes.  *)
(* self.graph is nodes (node id -> attribute dict) and edges (the set of   *)
(* <<source, target, relation>>).                                          *)
(***************************************************************************)
VARIABLES nodes, edges, class_methods, method_params, method_returns,
          analyzed_files, files_processed, total_namespaces, total_classes,
          total_methods, total_interfaces, total_enums, total_structs,
          total_dependencies, total_usings

\* the directory being analysed and the progress of analyze_codebase
VARIABLES walk, pos, pass, first_graph

\* one call of a pure helper, for the specifications of the helpers alone
VARIABLES call

objVars == <<nodes, edges, class_methods, method_params, method_returns,
             analyzed_files, files_processed, total_namespaces, total_classes,
             total_methods, total_interfaces, total_enums, total_structs,
             total_dependencies, total_usings>>

vars == <<objVars, walk, pos, pass, first_graph, call>>

\* the object as one value, for the handlers below
Self ==
    [nodes |-> nodes, edges |-> edges, class_methods |-> class_methods,
     method_params |-> method_params, method_returns |-> method_returns,
     analyzed_files |-> analyzed_files, files_processed |-> files_processed,
     total_namespaces |-> total_namespaces, total_classes |-> total_classes,
     total_methods |-> total_methods, total_interfaces |-> total_interfaces,
     total_enums |-> total_enums, total_structs |-> total_structs,
     total_dependencies |-> total_dependencies, total_usings |-> total_usings]

\* __init__
NewObject ==
    [nodes |-> <<>>, edges |-> {}, class_methods |-> <<>>,
     method_params |-> <<>>, method_returns |-> <<>>,
     analyzed_files |-> {}, files_processed |-> 0,
     total_namespaces |-> 0, total_classes |-> 0, total_methods |-> 0,
     total_interfaces |-> 0, total_enums |-> 0, total_structs |-> 0,
     total_dependencies |-> {}, total_usings |-> 0]

(***************************************************************************)
(* The graph store (networkx DiGraph, as the code uses it).                *)
(***************************************************************************)
HasNode(self, n) == n \in DOMAIN self.nodes

\* a plausible slip: a later encounter overwrites the attributes
UpsertNodeOverwrite(self, n, attrs) ==
    [self EXCEPT !.nodes = (n :> attrs) @@ self.nodes]

\* a plausible slip: a stub met again with a full declaration is replaced,
\* and removing the stub removes its edges
UpsertNodeUpgradeStub(self, n, attrs) ==
    IF ~HasNode(self, n) THEN [self EXCEPT !.nodes = (n :> attrs) @@ self.nodes]
    ELSE IF "access_modifier" \notin DOMAIN self.nodes[n]
            /\ "access_modifier" \in DOMAIN attrs
    THEN [self EXCEPT !.nodes = (n :> attrs) @@ self.nodes,
                      !.edges = {e \in self.edges : e[1] # n /\ e[2] # n}]
    ELSE self

\* if not self.graph.has_node(n): self.graph.add_node(n, **attrs)
UpsertNode(self, n, attrs) ==
    IF HasNode(self, n) THEN self
    ELSE [self EXCEPT !.nodes = (n :> attrs) @@ self.nodes]

\* a plausible slip: a multigraph, which keeps one edge per relation
AddEdgeMulti(self, u, v, relation) ==
    [self EXCEPT !.edges = self.edges \cup {<<u, v, relation>>}]

\* self.graph.add_edge(u, v, relation=...): an endpoint that is no node yet
\* becomes one with no attributes; the pair's edge takes the relation
AddEdge(self, u, v, relation) ==
    [self EXCEPT
       !.nodes = self.nodes @@ (u :> <<>>) @@ (v :> <<>>),
       !.edges = {e \in self.edges : ~(e[1] = u /\ e[2] = v)}
                 \cup {<<u, v, relation>>}]

\* a variant in which the recognizers add the edge only and leave the node to
\* add_edge, which makes it without attributes
DeclareEdgeOnly(self, parent, n, attrs, relation) ==
    AddEdge(self, parent, n, relation)

\* the upsert of a node and the edge to it from its parent, as every
\* recognizer does them
Declare(self, parent, n, attrs, relation) ==
    AddEdge(UpsertNode(self, n, attrs), parent, n, relation)

(***************************************************************************)
(* The patterns.  Each ...At(t, i) is the pattern's match that starts at   *)
(* position i of t, NoMatch when it does not match there.                  *)
(***************************************************************************)
AccessKw == {"public", "protected", "internal", "private"}

\* ([\w\.]+)\s*;   after match m
UsingNameAt(t, m) == Lit(t, Blanks(t, Group(t, m, Dotted, "namespace")), ";")

\* using\s+(?:static\s+)?([\w\.]+)\s*;
UsingAt(t, i) ==
    Either(UsingNameAt(t, Blanks1(t, Lit(t, Blanks1(t, Lit(t, Start(i), "using")),
                                         "static"))),
           UsingNameAt(t, Blanks1(t, Lit(t, Start(i), "using"))))

\* \s*{([\s\S]*?)}   after match m: the lazy body ends at the first '}';
\* brace is the position of the opening brace
LazyBodyAt(t, m) ==
    UpTo(t, Lit(t, Mark(Blanks(t, m), "brace"), "{"), "}", "body", 0)

\* namespace\s+([\w\.]+)\s*{([\s\S]*?)}
NamespaceAt(t, i) ==
    LazyBodyAt(t, Group(t, Blanks1(t, Lit(t, Start(i), "namespace")), Dotted,
                        "name"))

\* (public|protected|internal|private)?\s*(<mods>)?\s*   from position i, when
\* the keyword of the construct must follow
KwPrefix(t, i, mods) ==
    Blanks(t, Optional(t, Blanks(t, Optional(t, Start(i), AccessKw, "access")),
                       mods, "modifiers"))

\* <kw>\s+(\w+)   after match m
TypeNameKw(t, m, kw) == Group(t, Blanks1(t, Lit(t, m, kw)), Word, "name")

\* where the group ([\w,\s]+) starts, after ':' and \s*, from position p:
\* \s* takes the blanks, and gives the last one back when nothing else is
\* left for the group
InheritsStart(t, p) ==
    IF SkipWs(t, p) < RunEnd(t, p, Inherit) THEN SkipWs(t, p)
    ELSE RunEnd(t, p, Inherit) - 1

\* \s*([\w,\s]+)   after match m
InheritsGroup(t, m) ==
    IF m.ok /\ RunEnd(t, m.end, Inherit) > m.end
    THEN ("inherits" :> PyStr(Slice(t, InheritsStart(t, m.end),
                                    RunEnd(t, m.end, Inherit))))
         @@ [m EXCEPT !.end = RunEnd(t, @, Inherit)]
    ELSE NoMatch

\* <kw>\s+(\w+)(?:\s*:\s*([\w,\s]+))?\s*{   after match m
TypeHeadAt(t, m, kw) ==
    Lit(t, Either(InheritsGroup(t, Lit(t, Blanks(t, TypeNameKw(t, m, kw)), ":")),
                  Absent(Blanks(t, TypeNameKw(t, m, kw)), "inherits")),
        "{")

\* class_pattern, interface_pattern, struct_pattern
TypeDeclAt(t, i, kw, mods) == TypeHeadAt(t, KwPrefix(t, i, mods), kw)

ClassMods == {"abstract", "sealed", "static", "partial"}

ClassAt(t, i) == TypeDeclAt(t, i, "class", ClassMods)

InterfaceAt(t, i) == TypeDeclAt(t, i, "interface", {"partial"})

StructAt(t, i) == TypeDeclAt(t, i, "struct", {"partial"})

\* (public|protected|internal|private)?\s*enum\s+(\w+)\s*{([\s\S]*?)}
EnumAt(t, i) ==
    LazyBodyAt(t, TypeNameKw(t, Blanks(t, Optional(t, Start(i), AccessKw, "access")),
                             "enum"))

(***************************************************************************)
(* Member patterns.  Their optional keyword groups are followed by a type  *)
(* token that a keyword also matches, so the engine may have to give a     *)
(* keyword back: the four ways to match the two groups, in the order the   *)
(* engine tries them.                                                      *)
(***************************************************************************)
BothKw(t, i, mods) ==
    Blanks(t, Keyword(t, Blanks(t, Keyword(t, Start(i), AccessKw, "access")),
                      mods, "modifiers"))

AccessOnly(t, i) ==
    Absent(Blanks(t, Keyword(t, Start(i), AccessKw, "access")), "modifiers")

ModifierOnly(t, i, mods) ==
    Blanks(t, Keyword(t, Blanks(t, Absent(Start(i), "access")), mods, "modifiers"))

NoKw(t, i) == Blanks(t, Absent(Absent(Start(i), "access"), "modifiers"))

\* ([\w\<\>\[\]]+)\s+(\w+)\s*\(([^\)]*)\)\s*<closer>   after match m, closer
\* '{' for a method with a body and ';' for an interface method
SignatureAt(t, m, closer) ==
    Lit(t, Blanks(t, UpTo(t, Lit(t, Blanks(t, TypeNameAt(t, m)), "("),
                          ")", "parameters", 0)),
        closer)

MethodMods ==
    {"static", "virtual", "override", "abstract", "async", "sealed", "new", "extern"}

\* method_pattern at i: the first way to match the keyword groups after
\* which the rest matches
MethodAt(t, i) ==
    Either(SignatureAt(t, BothKw(t, i, MethodMods), "{"),
    Either(SignatureAt(t, AccessOnly(t, i), "{"),
    Either(SignatureAt(t, ModifierOnly(t, i, MethodMods), "{"),
           SignatureAt(t, NoKw(t, i), "{"))))

\* the method pattern of _process_interface_members
InterfaceMethodAt(t, i) == SignatureAt(t, Start(i), ";")

\* ([\w\<\>\[\]]+)\s+(\w+)\s*{\s*   after match m
PropertyHeadAt(t, m) == Blanks(t, Lit(t, Blanks(t, TypeNameAt(t, m)), "{"))

\* one alternative of the accessors group, lit, and the \s*} after it
AccessorsAt(t, m, lit) ==
    Lit(t, Blanks(t, Span(t, m, Lits(t, m, lit), "accessors")), "}")

\* (get;|set;|get; set;|set; get;)\s*}   after match m: the alternatives in
\* order
PropertyAccessorsAt(t, m) ==
    Either(AccessorsAt(t, m, <<"get", ";">>),
    Either(AccessorsAt(t, m, <<"set", ";">>),
    Either(AccessorsAt(t, m, <<"get", ";", " ", "set", ";">>),
           AccessorsAt(t, m, <<"set", ";", " ", "get", ";">>))))

PropertyTailAt(t, m) == PropertyAccessorsAt(t, PropertyHeadAt(t, m))

MemberMods == MethodMods \ {"async"}

\* property_pattern at i
PropertyAt(t, i) ==
    Either(PropertyTailAt(t, BothKw(t, i, MemberMods)),
    Either(PropertyTailAt(t, AccessOnly(t, i)),
    Either(PropertyTailAt(t, ModifierOnly(t, i, MemberMods)),
           PropertyTailAt(t, NoKw(t, i)))))

\* (get;\s*set;|get;|set;)\s*}   after match m
InterfaceAccessorsAt(t, m) ==
    Either(Lit(t, Blanks(t, Span(t, m, Lits(t, Blanks(t, Lits(t, m, <<"get", ";">>)),
                                            <<"set", ";">>),
                                 "accessors")),
               "}"),
    Either(AccessorsAt(t, m, <<"get", ";">>),
           AccessorsAt(t, m, <<"set", ";">>)))

\* the property pattern of _process_interface_members
InterfacePropertyAt(t, i) == InterfaceAccessorsAt(t, PropertyHeadAt(t, Start(i)))

\* event\s+([\w\<\>\[\]]+)\s+(\w+)\s*;   after match m
EventTailAt(t, m) ==
    Lit(t, Blanks(t, TypeNameAt(t, Blanks1(t, Lit(t, m, "event")))), ";")

\* event_pattern at i
EventAt(t, i) ==
    Either(EventTailAt(t, BothKw(t, i, MemberMods)),
    Either(EventTailAt(t, AccessOnly(t, i)),
    Either(EventTailAt(t, ModifierOnly(t, i, MemberMods)),
           EventTailAt(t, NoKw(t, i)))))

\* \s*[^;]+;   after match m, which ends with the '='
InitializerAt(t, m) ==
    IF m.ok /\ IndexFrom(t, ";", m.end) > m.end
    THEN [m EXCEPT !.end = IndexFrom(t, ";", @) + 1]
    ELSE NoMatch

\* ([\w\<\>\[\]]+)\s+(\w+)\s*(=\s*[^;]+)?;   after match m
FieldTailAt(t, m) ==
    Either(Lit(t, Blanks(t, TypeNameAt(t, m)), ";"),
           InitializerAt(t, Lit(t, Blanks(t, TypeNameAt(t, m)), "=")))

FieldMods == {"static", "readonly", "const", "volatile"}

\* field_pattern at i
FieldAt(t, i) ==
    Either(FieldTailAt(t, BothKw(t, i, FieldMods)),
    Either(FieldTailAt(t, AccessOnly(t, i)),
    Either(FieldTailAt(t, ModifierOnly(t, i, FieldMods)),
           FieldTailAt(t, NoKw(t, i)))))

\* the leftmost match from position i on; match_at[s] is the pattern's
\* match at position s of the content
FirstMatch(match_at, i) ==
    match_at[CHOOSE s \in DOMAIN match_at :
                 /\ s >= i /\ match_at[s].ok
                 /\ \A r \in i..(s - 1) : ~match_at[r].ok]

\* re.finditer(pattern, content) from position i on, each search resuming
\* where the previous match ended
RECURSIVE FindIter(_, _)
FindIter(match_at, i) ==
    IF \A s \in DOMAIN match_at : s < i \/ ~match_at[s].ok THEN <<>>
    ELSE <<FirstMatch(match_at, i)>>
         \o FindIter(match_at, FirstMatch(match_at, i).end)

(***************************************************************************)
(* The recognizers.  Each ...Matches(self, ..., ms, k) is the recognizer's *)
(* loop over the matches ms[k], ms[k + 1], ...                             *)
(***************************************************************************)
\* match.group(n) or default
OrElse(group, default) == IF group.some THEN group.value ELSE default

\* dict[key] = value
Put(d, key, value) == (key :> value) @@ d

\* f"{label}{name} ({owner})"
MemberNode(label, name, owner) ==
    <<label>> \o name \o <<" (">> \o owner \o <<")">>

MethodNode(method_name, class_node) ==
    MemberNode("Method: ", method_name, class_node)

\* lines 254-263: the class's methods, the method's parameters and return
\* type, the count
TrackMethod(self, class_node, method_node, match) ==
    [self EXCEPT
       !.class_methods =
           Put(@, class_node,
               Append(IF class_node \in DOMAIN @ THEN @[class_node] ELSE <<>>,
                      match.name)),
       !.method_params = Put(@, method_node, ParseParameters(match.parameters)),
       !.method_returns = Put(@, method_node, Strip(match.type)),
       !.total_methods = @ + 1]

RECURSIVE ProcessMethodMatches(_, _, _, _)
ProcessMethodMatches(self, class_node, ms, k) ==
    IF k > Len(ms) THEN self
    ELSE ProcessMethodMatches(
             TrackMethod(
                 Declare(self, class_node, MethodNode(ms[k].name, class_node),
                         [type |-> "method", name |-> ms[k].name,
                          access_modifier |-> OrElse(ms[k].access, <<"private">>),
                          modifiers |-> Strip(OrElse(ms[k].modifiers, <<>>)),
                          return_type |-> Strip(ms[k].type),
                          parameters |-> ParseParameters(ms[k].parameters)],
                         "HAS_METHOD"),
                 class_node, MethodNode(ms[k].name, class_node), ms[k]),
             class_node, ms, k + 1)

ProcessMethods(self, content, class_node) ==
    ProcessMethodMatches(self, class_node,
        FindIter([s \in DOMAIN content |-> MethodAt(content, s)], 1), 1)

\* the attributes every member node has
MemberAttrs(kind, match) ==
    [type |-> kind, name |-> match.name,
     access_modifier |-> OrElse(match.access, <<"private">>),
     modifiers |-> Strip(OrElse(match.modifiers, <<>>))]

RECURSIVE ProcessPropertyMatches(_, _, _, _)
ProcessPropertyMatches(self, class_node, ms, k) ==
    IF k > Len(ms) THEN self
    ELSE ProcessPropertyMatches(
             Declare(self, class_node,
                     MemberNode("Property: ", ms[k].name, class_node),
                     MemberAttrs("property", ms[k])
                     @@ [property_type |-> Strip(ms[k].type),
                         accessors |-> Strip(ms[k].accessors)],
                     "HAS_PROPERTY"),
             class_node, ms, k + 1)

ProcessProperties(self, content, class_node) ==
    ProcessPropertyMatches(self, class_node,
        FindIter([s \in DOMAIN content |-> PropertyAt(content, s)], 1), 1)

RECURSIVE ProcessEventMatches(_, _, _, _)
ProcessEventMatches(self, class_node, ms, k) ==
    IF k > Len(ms) THEN self
    ELSE ProcessEventMatches(
             Declare(self, class_node,
                     MemberNode("Event: ", ms[k].name, class_node),
                     MemberAttrs("event", ms[k])
                     @@ [event_type |-> Strip(ms[k].type)],
                     "HAS_EVENT"),
             class_node, ms, k + 1)

ProcessEvents(self, content, class_node) ==
    ProcessEventMatches(self, class_node,
        FindIter([s \in DOMAIN content |-> EventAt(content, s)], 1), 1)

RECURSIVE ProcessFieldMatches(_, _, _, _)
ProcessFieldMatches(self, class_node, ms, k) ==
    IF k > Len(ms) THEN self
    ELSE ProcessFieldMatches(
             Declare(self, class_node,
                     MemberNode("Field: ", ms[k].name, class_node),
                     MemberAttrs("field", ms[k])
                     @@ [field_type |-> Strip(ms[k].type)],
                     "HAS_FIELD"),
             class_node, ms, k + 1)

ProcessFields(self, content, class_node) ==
    ProcessFieldMatches(self, class_node,
        FindIter([s \in DOMAIN content |-> FieldAt(content, s)], 1), 1)

\* lines 425-427: the method's parameters and return type
TrackInterfaceMethod(self, method_node, match) ==
    [self EXCEPT
       !.method_params = Put(@, method_node, ParseParameters(match.parameters)),
       !.method_returns = Put(@, method_node, Strip(match.type))]

RECURSIVE ProcessInterfaceMethodMatches(_, _, _, _)
ProcessInterfaceMethodMatches(self, interface_node, ms, k) ==
    IF k > Len(ms) THEN self
    ELSE ProcessInterfaceMethodMatches(
             TrackInterfaceMethod(
                 Declare(self, interface_node,
                         MethodNode(ms[k].name, interface_node),
                         [type |-> "method", name |-> ms[k].name,
                          access_modifier |-> <<"public">>,
                          modifiers |-> <<"abstract">>,
                          return_type |-> Strip(ms[k].type),
                          parameters |-> ParseParameters(ms[k].parameters)],
                         "HAS_METHOD"),
                 MethodNode(ms[k].name, interface_node), ms[k]),
             interface_node, ms, k + 1)

RECURSIVE ProcessInterfacePropertyMatches(_, _, _, _)
ProcessInterfacePropertyMatches(self, interface_node, ms, k) ==
    IF k > Len(ms) THEN self
    ELSE ProcessInterfacePropertyMatches(
             Declare(self, interface_node,
                     MemberNode("Property: ", ms[k].name, interface_node),
                     [type |-> "property", name |-> ms[k].name,
                      access_modifier |-> <<"public">>,
                      modifiers |-> <<"abstract">>,
                      property_type |-> Strip(ms[k].type),
                      accessors |-> Strip(ms[k].accessors)],
                     "HAS_PROPERTY"),
             interface_node, ms, k + 1)

\* the two loops of _process_interface_members
ProcessInterfaceMembers(self, content, interface_node) ==
    ProcessInterfacePropertyMatches(
        ProcessInterfaceMethodMatches(self, interface_node,
            FindIter([s \in DOMAIN content |-> InterfaceMethodAt(content, s)], 1),
            1),
        interface_node,
        FindIter([s \in DOMAIN content |-> InterfacePropertyAt(content, s)], 1),
        1)

\* [b.strip() for b in inherits.split(',')]
RECURSIVE StripAll(_)
StripAll(pieces) ==
    IF pieces = <<>> THEN <<>>
    ELSE <<Strip(Head(pieces))>> \o StripAll(Tail(pieces))

\* a plausible slip: only the first base of the list is handled
BaseNamesFirstOnly(inherits) == <<Strip(Head(Split(inherits, ",")))>>

BaseNames(inherits) == StripAll(Split(inherits, ","))

\* the inheritance loop: a node and an edge per base
RECURSIVE ProcessBases(_, _, _, _, _, _, _)
ProcessBases(self, node, label, kind, relation, bases, k) ==
    IF k > Len(bases) THEN self
    ELSE ProcessBases(
             Declare(self, node, <<label>> \o bases[k],
                     [type |-> kind, name |-> bases[k]], relation),
             node, label, kind, relation, bases, k + 1)

\* if inherits: the inheritance loop
ProcessInherits(self, node, label, kind, relation, inherits) ==
    IF inherits.some
    THEN ProcessBases(self, node, label, kind, relation,
                      BaseNames(inherits.value), 1)
    ELSE self

\* inherits.strip() if inherits else None
InheritsAttr(inherits) ==
    IF inherits.some THEN PyStr(Strip(inherits.value)) ELSE PyNone

\* the attributes of a class, interface or struct node
TypeAttrs(kind, match) ==
    [type |-> kind, name |-> match.name,
     access_modifier |-> OrElse(match.access, <<"internal">>),
     modifiers |-> Strip(OrElse(match.modifiers, <<>>)),
     inherits |-> InheritsAttr(match.inherits)]

\* a variant in which the count is of the nodes made: it is raised only when
\* the declaration makes the node
DeclareTypeCountsNodes(self, parent_node, n, kind, relation, counter, match) ==
    IF HasNode(self, n)
    THEN Declare(self, parent_node, n, TypeAttrs(kind, match), relation)
    ELSE [Declare(self, parent_node, n, TypeAttrs(kind, match), relation)
            EXCEPT ![counter] = @ + 1]

\* the node of a class, interface or struct, the edge from its parent, and
\* the count
DeclareType(self, parent_node, n, kind, relation, counter, match) ==
    [Declare(self, parent_node, n, TypeAttrs(kind, match), relation)
       EXCEPT ![counter] = @ + 1]

\* lines 209-213: the members of the class body
ProcessClassBody(self, class_body, class_node) ==
    ProcessFields(
        ProcessEvents(
            ProcessProperties(
                ProcessMethods(self, class_body, class_node),
                class_body, class_node),
            class_body, class_node),
        class_body, class_node)

RECURSIVE ProcessClassMatches(_, _, _, _, _)
ProcessClassMatches(self, content, parent_node, ms, k) ==
    IF k > Len(ms) THEN self
    ELSE ProcessClassMatches(
             ProcessInherits(
                 ProcessClassBody(
                     DeclareType(self, parent_node, <<"Class: ">> \o ms[k].name,
                                 "class", "CONTAINS_CLASS", "total_classes", ms[k]),
                     ExtractBlock(content, ms[k].end - 1),
                     <<"Class: ">> \o ms[k].name),
                 <<"Class: ">> \o ms[k].name, "Class: ", "class", "INHERITS",
                 ms[k].inherits),
             content, parent_node, ms, k + 1)

ProcessClasses(self, content, parent_node) ==
    ProcessClassMatches(self, content, parent_node,
        FindIter([s \in DOMAIN content |-> ClassAt(content, s)], 1), 1)

RECURSIVE ProcessInterfaceMatches(_, _, _, _, _)
ProcessInterfaceMatches(self, content, parent_node, ms, k) ==
    IF k > Len(ms) THEN self
    ELSE ProcessInterfaceMatches(
             ProcessInherits(
                 ProcessInterfaceMembers(
                     DeclareType(self, parent_node,
                                 <<"Interface: ">> \o ms[k].name, "interface",
                                 "CONTAINS_INTERFACE", "total_interfaces", ms[k]),
                     ExtractBlock(content, ms[k].end - 1),
                     <<"Interface: ">> \o ms[k].name),
                 <<"Interface: ">> \o ms[k].name, "Interface: ", "interface",
                 "INHERITS_INTERFACE", ms[k].inherits),
             content, parent_node, ms, k + 1)

ProcessInterfaces(self, content, parent_node) ==
    ProcessInterfaceMatches(self, content, parent_node,
        FindIter([s \in DOMAIN content |-> InterfaceAt(content, s)], 1), 1)

\* [member.strip().split('=')[0].strip()
\*  for member in enum_body.split(',') if member.strip()]
RECURSIVE EnumMemberNames(_)
EnumMemberNames(pieces) ==
    IF pieces = <<>> THEN <<>>
    ELSE (IF Strip(Head(pieces)) # <<>>
          THEN <<Strip(Split(Strip(Head(pieces)), "=")[1])>>
          ELSE <<>>) \o EnumMemberNames(Tail(pieces))

RECURSIVE ProcessEnumMembers(_, _, _, _)
ProcessEnumMembers(self, enum_node, enum_members, k) ==
    IF k > Len(enum_members) THEN self
    ELSE ProcessEnumMembers(
             Declare(self, enum_node,
                     MemberNode("EnumMember: ", enum_members[k], enum_node),
                     [type |-> "enum_member", name |-> enum_members[k]],
                     "HAS_MEMBER"),
             enum_node, enum_members, k + 1)

\* the node of an enum, the edge from its parent, and the count
DeclareEnum(self, parent_node, enum_node, match) ==
    [Declare(self, parent_node, enum_node,
             [type |-> "enum", name |-> match.name,
              access_modifier |-> OrElse(match.access, <<"internal">>)],
             "CONTAINS_ENUM")
       EXCEPT !.total_enums = @ + 1]

RECURSIVE ProcessEnumMatches(_, _, _, _)
ProcessEnumMatches(self, parent_node, ms, k) ==
    IF k > Len(ms) THEN self
    ELSE ProcessEnumMatches(
             ProcessEnumMembers(
                 DeclareEnum(self, parent_node, <<"Enum: ">> \o ms[k].name, ms[k]),
                 <<"Enum: ">> \o ms[k].name,
                 EnumMemberNames(Split(ms[k].body, ",")), 1),
             parent_node, ms, k + 1)

ProcessEnums(self, content, parent_node) ==
    ProcessEnumMatches(self, parent_node,
        FindIter([s \in DOMAIN content |-> EnumAt(content, s)], 1), 1)

\* lines 524-527: the members of the struct body
ProcessStructBody(self, struct_body, struct_node) ==
    ProcessFields(
        ProcessProperties(
            ProcessMethods(self, struct_body, struct_node),
            struct_body, struct_node),
        struct_body, struct_node)

RECURSIVE ProcessStructMatches(_, _, _, _, _)
ProcessStructMatches(self, content, parent_node, ms, k) ==
    IF k > Len(ms) THEN self
    ELSE ProcessStructMatches(
             ProcessInherits(
                 ProcessStructBody(
                     DeclareType(self, parent_node, <<"Struct: ">> \o ms[k].name,
                                 "struct", "CONTAINS_STRUCT", "total_structs",
                                 ms[k]),
                     ExtractBlock(content, ms[k].end - 1),
                     <<"Struct: ">> \o ms[k].name),
                 <<"Struct: ">> \o ms[k].name, "Struct: ", "struct", "INHERITS",
                 ms[k].inherits),
             content, parent_node, ms, k + 1)

ProcessStructs(self, content, parent_node) ==
    ProcessStructMatches(self, content, parent_node,
        FindIter([s \in DOMAIN content |-> StructAt(content, s)], 1), 1)

NamespaceNode(namespace) == <<"Namespace: ">> \o namespace

\* the node of a namespace, the edge from the file, and the count
DeclareNamespace(self, file_node, namespace_node, match) ==
    [Declare(self, file_node, namespace_node,
             [type |-> "namespace", name |-> match.name], "CONTAINS_NAMESPACE")
       EXCEPT !.total_namespaces = @ + 1]

\* lines 174-177: the types of the namespace body
ProcessNamespaceBody(self, namespace_body, namespace_node) ==
    ProcessStructs(
        ProcessEnums(
            ProcessInterfaces(
                ProcessClasses(self, namespace_body, namespace_node),
                namespace_body, namespace_node),
            namespace_body, namespace_node),
        namespace_body, namespace_node)

RECURSIVE ProcessNamespaceMatches(_, _, _, _)
ProcessNamespaceMatches(self, file_node, ms, k) ==
    IF k > Len(ms) THEN self
    ELSE ProcessNamespaceMatches(
             ProcessNamespaceBody(
                 DeclareNamespace(self, file_node, NamespaceNode(ms[k].name), ms[k]),
                 ms[k].body, NamespaceNode(ms[k].name)),
             file_node, ms, k + 1)

ProcessNamespaces(self, content, file_node) ==
    ProcessNamespaceMatches(self, file_node,
        FindIter([s \in DOMAIN content |-> NamespaceAt(content, s)], 1), 1)

\* the word lexemes of the inputs that begin with 'System'
SystemWords == {"System", "Systems"}

\* namespace.startswith('System')
StartsWithSystem(namespace) == namespace # <<>> /\ namespace[1] \in SystemWords

\* a variant in which the first part of every namespace that is not a System
\* one is a dependency, dotted or not
TrackUsingUndotted(self, namespace) ==
    IF ~StartsWithSystem(namespace)
    THEN [self EXCEPT !.total_usings = @ + 1,
                      !.total_dependencies = @ \cup {Split(namespace, ".")[1]}]
    ELSE [self EXCEPT !.total_usings = @ + 1]

\* lines 147-151: the count; the first part of a dotted namespace that is not a
\* System one is a dependency
TrackUsing(self, namespace) ==
    IF ~StartsWithSystem(namespace) /\ IndexFrom(namespace, ".", 1) # 0
    THEN [self EXCEPT !.total_usings = @ + 1,
                      !.total_dependencies = @ \cup {Split(namespace, ".")[1]}]
    ELSE [self EXCEPT !.total_usings = @ + 1]

RECURSIVE ProcessUsingMatches(_, _, _, _)
ProcessUsingMatches(self, file_node, ms, k) ==
    IF k > Len(ms) THEN self
    ELSE ProcessUsingMatches(
             TrackUsing(
                 Declare(self, file_node, NamespaceNode(ms[k].namespace),
                         [type |-> "namespace", name |-> ms[k].namespace],
                         "USES_NAMESPACE"),
                 ms[k].namespace),
             file_node, ms, k + 1)

ProcessUsings(self, content, file_node) ==
    ProcessUsingMatches(self, file_node,
        FindIter([s \in DOMAIN content |-> UsingAt(content, s)], 1), 1)

(***************************************************************************)
(* Files.  A file of the directory is its relative path (lexemes, the last *)
(* one holding the suffix that analyze_codebase dispatches on), whether    *)
(* open() and read() succeed, its text and, for a lock file, what          *)
(* json.loads makes of the text.                                           *)
(***************************************************************************)
EndsWith(path, suffix) == path # <<>> /\ path[Len(path)] = suffix

\* a lock file's document: valid is whether json.loads returns; is_object
\* whether the top level is a dict; deps_is_object whether its
\* "dependencies" is one (an absent key reads as the empty dict); deps the
\* items of that dict in order, each with its name, whether its value is a
\* dict, and the value's "resolved" (PyNone when absent)
NoDoc == [valid |-> FALSE, is_object |-> FALSE, deps_is_object |-> FALSE, deps |-> <<>>]

\* <key>="([^"]+)"   after match m
QuotedAttrAt(t, m, key, name) ==
    UpTo(t, Lits(t, m, <<key, "=", "\"">>), "\"", name, 1)

\* <tag>\s+<key1>="([^"]+)"\s+<key2>="([^"]+)"   at position i
PackageHeadAt(t, i, tag, key1, key2) ==
    QuotedAttrAt(t,
        Blanks1(t, QuotedAttrAt(t, Blanks1(t, Lits(t, Start(i), <<"<", tag>>)),
                                key1, "package_name")),
        key2, "version")

\* <PackageReference\s+Include="([^"]+)"\s+Version="([^"]+)"\s*/>
PackageReferenceAt(t, i) ==
    Lits(t, Blanks(t, PackageHeadAt(t, i, "PackageReference", "Include", "Version")),
         <<"/", ">">>)

\* the first position >= i where '/>' starts, 0 when there is none
SlashGtFrom(t, i) ==
    IF \E j \in i..Len(t) : LitAt(t, j, <<"/", ">">>)
    THEN CHOOSE j \in i..Len(t) :
             LitAt(t, j, <<"/", ">">>)
             /\ \A k \in i..(j - 1) : ~LitAt(t, k, <<"/", ">">>)
    ELSE 0

\* .*?/>   after match m: as little as possible up to '/>', on one line
LazyLineAt(t, m) ==
    IF m.ok /\ SlashGtFrom(t, m.end) # 0
       /\ (IndexFrom(t, "\n", m.end) = 0
           \/ IndexFrom(t, "\n", m.end) > SlashGtFrom(t, m.end))
    THEN [m EXCEPT !.end = SlashGtFrom(t, @) + 2]
    ELSE NoMatch

\* <package\s+id="([^"]+)"\s+version="([^"]+)"\s+.*?/>
PackageAt(t, i) ==
    LazyLineAt(t, Blanks1(t, PackageHeadAt(t, i, "package", "id", "version")))

DependencyNode(package_name) == <<"Dependency: ">> \o package_name

\* the node of a dependency, the edge from the file, and the name among the
\* dependencies
DeclareDependency(self, file_node, name, version, relation) ==
    [Declare(self, file_node, DependencyNode(name),
             [type |-> "dependency", name |-> name, version |-> version], relation)
       EXCEPT !.total_dependencies = @ \cup {name}]

\* the loop over the matches of a .csproj or a packages.config
RECURSIVE ProcessPackageMatches(_, _, _, _)
ProcessPackageMatches(self, file_node, ms, k) ==
    IF k > Len(ms) THEN self
    ELSE ProcessPackageMatches(
             DeclareDependency(self, file_node, ms[k].package_name, ms[k].version,
                               "HAS_DEPENDENCY"),
             file_node, ms, k + 1)

\* the loop over dependencies.items() of a lock file; dep_info.get raises on
\* an item whose value is no dict, which ends the loop with the earlier
\* items done
RECURSIVE ProcessLockItems(_, _, _, _)
ProcessLockItems(self, file_node, items, k) ==
    IF k > Len(items) THEN self
    ELSE IF ~items[k].is_object THEN self
    ELSE ProcessLockItems(
             DeclareDependency(self, file_node, items[k].name,
                               OrElse(items[k].resolved, <<>>),
                               "HAS_LOCKED_DEPENDENCY"),
             file_node, items, k + 1)

\* lines 630-666: the branch on the kind of dependency file
ProcessDependencies(self, file, file_node) ==
    IF EndsWith(file.path, ".csproj")
    THEN ProcessPackageMatches(self, file_node,
             FindIter([s \in DOMAIN file.text |-> PackageReferenceAt(file.text, s)], 1),
             1)
    ELSE IF EndsWith(file.path, "packages.config")
    THEN ProcessPackageMatches(self, file_node,
             FindIter([s \in DOMAIN file.text |-> PackageAt(file.text, s)], 1), 1)
    ELSE IF EndsWith(file.path, "packages.lock.json")
            /\ file.doc.valid /\ file.doc.is_object /\ file.doc.deps_is_object
    THEN ProcessLockItems(self, file_node, file.doc.deps, 1)
    ELSE self

\* _process_dependency_file
ProcessDependencyFile(self, file) ==
    IF file.path \in self.analyzed_files THEN self
    ELSE IF ~file.readable THEN self
    ELSE ProcessDependencies(
             UpsertNode([self EXCEPT !.analyzed_files = @ \cup {file.path}],
                        <<"Dependency File: ">> \o file.path,
                        [type |-> "dependency_file", path |-> file.path]),
             file, <<"Dependency File: ">> \o file.path)

\* lines 126-128 of _process_file: the recognizers over the file's contents
ProcessContents(self, content, file_node) ==
    ProcessNamespaces(ProcessUsings(self, content, file_node), content, file_node)

\* _process_file: the file is counted, then read; when it cannot be read
\* only the count is kept
ProcessFile(self, file) ==
    IF file.path \in self.analyzed_files THEN self
    ELSE IF ~file.readable THEN [self EXCEPT !.files_processed = @ + 1]
    ELSE ProcessContents(
             UpsertNode([self EXCEPT !.files_processed = @ + 1,
                                     !.analyzed_files = @ \cup {file.path}],
                        <<"File: ">> \o file.path,
                        [type |-> "file", path |-> file.path]),
             file.text, <<"File: ">> \o file.path)

(***************************************************************************)
(* The directory.  analyze_codebase walks a directory of the files below,  *)
(* in the order the file system lists them.                                *)
(***************************************************************************)
\* a.cs: uses and declares Acme.Core; Helper has two bases that it does not declare
\*   using System.IO;
\*   using Acme.Core;
\*   namespace Acme.Core { public class Helper : Base, IRun { public int Run(ref int x, string y = "a") { } } }
HelperCs ==
    [path |-> <<"a", ".cs">>, readable |-> TRUE, doc |-> NoDoc,
     text |->
       << "using", " ", "System", ".", "IO", ";", "\n", "using", " ", "Acme",
          ".", "Core", ";", "\n", "namespace", " ", "Acme", ".", "Core", " ",
          "{", " ", "public", " ", "class", " ", "Helper", " ", ":", " ",
          "Base", ",", " ", "IRun", " ", "{", " ", "public", " ", "int", " ",
          "Run", "(", "ref", " ", "int", " ", "x", ",", " ", "string", " ",
          "y", " ", "=", " ", "\"", "a", "\"", ")", " ", "{", " ", "}", " ",
          "}", " ", "}" >>]

\* b.cs: two classes named Helper in two namespaces, each with a method Run; a third class after them
\*   namespace N1 { class Helper { void Run() { } } }
\*   namespace N2 { class Helper { int Run(int a) { return a; } } class Other { } }
TwoHelpersCs ==
    [path |-> <<"b", ".cs">>, readable |-> TRUE, doc |-> NoDoc,
     text |->
       << "namespace", " ", "N1", " ", "{", " ", "class", " ", "Helper", " ",
          "{", " ", "void", " ", "Run", "(", ")", " ", "{", " ", "}", " ",
          "}", " ", "}", "\n", "namespace", " ", "N2", " ", "{", " ",
          "class", " ", "Helper", " ", "{", " ", "int", " ", "Run", "(",
          "int", " ", "a", ")", " ", "{", " ", "return", " ", "a", ";", " ",
          "}", " ", "}", " ", "class", " ", "Other", " ", "{", " ", "}", " ",
          "}" >>]

\* c.cs: the full declaration of Base
\*   namespace Lib { public abstract class Base { protected int count; public event Handler Changed; static int Total() { } } }
BaseCs ==
    [path |-> <<"c", ".cs">>, readable |-> TRUE, doc |-> NoDoc,
     text |->
       << "namespace", " ", "Lib", " ", "{", " ", "public", " ", "abstract",
          " ", "class", " ", "Base", " ", "{", " ", "protected", " ", "int",
          " ", "count", ";", " ", "public", " ", "event", " ", "Handler",
          " ", "Changed", ";", " ", "static", " ", "int", " ", "Total", "(",
          ")", " ", "{", " ", "}", " ", "}", " ", "}" >>]

\* d.cs: a namespace nested in a namespace, with an interface
\*   namespace Outer { namespace Inner { interface IRun : IBase { void Run(int a); } } }
NestedCs ==
    [path |-> <<"d", ".cs">>, readable |-> TRUE, doc |-> NoDoc,
     text |->
       << "namespace", " ", "Outer", " ", "{", " ", "namespace", " ",
          "Inner", " ", "{", " ", "interface", " ", "IRun", " ", ":", " ",
          "IBase", " ", "{", " ", "void", " ", "Run", "(", "int", " ", "a",
          ")", ";", " ", "}", " ", "}", " ", "}" >>]

\* e.cs: a struct and an enum
\*   namespace Geo { public struct Point : IShape { public int X = 1; void Move() { } } enum Color { Red, Green = 2 } }
PointCs ==
    [path |-> <<"e", ".cs">>, readable |-> TRUE, doc |-> NoDoc,
     text |->
       << "namespace", " ", "Geo", " ", "{", " ", "public", " ", "struct",
          " ", "Point", " ", ":", " ", "IShape", " ", "{", " ", "public",
          " ", "int", " ", "X", " ", "=", " ", "1", ";", " ", "void", " ",
          "Move", "(", ")", " ", "{", " ", "}", " ", "}", " ", "enum", " ",
          "Color", " ", "{", " ", "Red", ",", " ", "Green", " ", "=", " ",
          "2", " ", "}", " ", "}" >>]

\* f.cs: a using of one segment, a using that only begins with System, a struct that declares an event, an interface with an overloaded method
\*   using Gfx;
\*   using Systems.Text;
\*   namespace Ui { struct Button { public event Handler Clicked; } }
\*   namespace Ui.Views { interface IView { void Show(); void Show(int a); } }
ButtonCs ==
    [path |-> <<"f", ".cs">>, readable |-> TRUE, doc |-> NoDoc,
     text |->
       << "using", " ", "Gfx", ";", "\n", "using", " ", "Systems", ".",
          "Text", ";", "\n", "namespace", " ", "Ui", " ", "{", " ", "struct",
          " ", "Button", " ", "{", " ", "public", " ", "event", " ",
          "Handler", " ", "Clicked", ";", " ", "}", " ", "}", "\n",
          "namespace", " ", "Ui", ".", "Views", " ", "{", " ", "interface",
          " ", "IView", " ", "{", " ", "void", " ", "Show", "(", ")", ";",
          " ", "void", " ", "Show", "(", "int", " ", "a", ")", ";", " ", "}",
          " ", "}" >>]

\* bad.cs: a file that open() cannot read
LockedCs ==
    [path |-> <<"bad", ".cs">>, readable |-> FALSE, doc |-> NoDoc,
     text |->
       <<  >>]

\* app.csproj: a project file that names Json twice, with two versions
\*   <PackageReference Include="Json" Version="1.0" />
\*   <PackageReference Include="Json" Version="2.0" />
\*   <PackageReference Include="Log" Version="3.1"/>
AppCsproj ==
    [path |-> <<"app", ".csproj">>, readable |-> TRUE, doc |-> NoDoc,
     text |->
       << "<", "PackageReference", " ", "Include", "=", "\"", "Json", "\"",
          " ", "Version", "=", "\"", "1", ".", "0", "\"", " ", "/", ">",
          "\n", "<", "PackageReference", " ", "Include", "=", "\"", "Json",
          "\"", " ", "Version", "=", "\"", "2", ".", "0", "\"", " ", "/",
          ">", "\n", "<", "PackageReference", " ", "Include", "=", "\"",
          "Log", "\"", " ", "Version", "=", "\"", "3", ".", "1", "\"", "/",
          ">" >>]

\* packages.config: a packages.config; its second entry has no blank after the version
\*   <package id="Json" version="0.9" targetFramework="net45" />
\*   <package id="Old" version="1.1"/>
PackagesConfig ==
    [path |-> <<"packages.config">>, readable |-> TRUE, doc |-> NoDoc,
     text |->
       << "<", "package", " ", "id", "=", "\"", "Json", "\"", " ", "version",
          "=", "\"", "0", ".", "9", "\"", " ", "targetFramework", "=", "\"",
          "net45", "\"", " ", "/", ">", "\n", "<", "package", " ", "id", "=",
          "\"", "Old", "\"", " ", "version", "=", "\"", "1", ".", "1", "\"",
          "/", ">" >>]


\* packages.lock.json:
\*   {"dependencies": {"Json": {"resolved": "1.0"}, "Lock": {}}}
PackagesLock ==
    [path |-> <<"packages.lock.json">>, readable |-> TRUE, text |-> <<>>,
     doc |-> [valid |-> TRUE, is_object |-> TRUE, deps_is_object |-> TRUE,
              deps |-> << [name |-> <<"Json">>, is_object |-> TRUE,
                           resolved |-> PyStr(<<"1", ".", "0">>)],
                          [name |-> <<"Lock">>, is_object |-> TRUE,
                           resolved |-> PyNone] >>]]

\* lib/packages.lock.json, which json.loads rejects:
\*   {"dependencies": {"Json":
BrokenLock ==
    [path |-> <<"lib", "/", "packages.lock.json">>, readable |-> TRUE,
     text |-> <<>>, doc |-> NoDoc]

\* .editorconfig, one of ignored_files
EditorConfig ==
    [path |-> <<".editorconfig">>, readable |-> TRUE, text |-> <<>>, doc |-> NoDoc]

Files ==
    {HelperCs, TwoHelpersCs, BaseCs, NestedCs, PointCs, ButtonCs, LockedCs,
     AppCsproj, PackagesConfig, PackagesLock, BrokenLock, EditorConfig}

\* the most files a directory holds
MaxFiles == 2

\* the most times analyze_codebase runs over the directory
MaxPasses == 2

\* the listings of a directory: its files, each once, in some order
Walks ==
    UNION {{w \in [1..n -> Files] : \A i, j \in 1..n : i # j => w[i] # w[j]}
           : n \in 0..MaxFiles}

ignored_files == {<<".gitignore">>, <<".gitattributes">>, <<".editorconfig">>}

\* the file name of a path: what follows its last separator
FileName(path) ==
    LET seps == {i \in 1..Len(path) : path[i] = "/"}
    IN  IF seps = {} THEN path
        ELSE SubSeq(path, (CHOOSE i \in seps : \A j \in seps : j <= i) + 1, Len(path))

IsCs(file) == EndsWith(file.path, ".cs")

IsDependencyFile(file) ==
    \/ EndsWith(file.path, ".csproj")
    \/ EndsWith(file.path, "packages.config")
    \/ EndsWith(file.path, "packages.lock.json")

NoCall == [op |-> "none"]

NoGraph == [nodes |-> <<>>, edges |-> {}]

\* the object's fields become those of s
Becomes(s) ==
    /\ nodes' = s.nodes
    /\ edges' = s.edges
    /\ class_methods' = s.class_methods
    /\ method_params' = s.method_params
    /\ method_returns' = s.method_returns
    /\ analyzed_files' = s.analyzed_files
    /\ files_processed' = s.files_processed
    /\ total_namespaces' = s.total_namespaces
    /\ total_classes' = s.total_classes
    /\ total_methods' = s.total_methods
    /\ total_interfaces' = s.total_interfaces
    /\ total_enums' = s.total_enums
    /\ total_structs' = s.total_structs
    /\ total_dependencies' = s.total_dependencies
    /\ total_usings' = s.total_usings

\* the object's fields are those of s
Is(s) ==
    /\ nodes = s.nodes
    /\ edges = s.edges
    /\ class_methods = s.class_methods
    /\ method_params = s.method_params
    /\ method_returns = s.method_returns
    /\ analyzed_files = s.analyzed_files
    /\ files_processed = s.files_processed
    /\ total_namespaces = s.total_namespaces
    /\ total_classes = s.total_classes
    /\ total_methods = s.total_methods
    /\ total_interfaces = s.total_interfaces
    /\ total_enums = s.total_enums
    /\ total_structs = s.total_structs
    /\ total_dependencies = s.total_dependencies
    /\ total_usings = s.total_usings

Init ==
    /\ Is(NewObject)
    /\ walk \in Walks
    /\ pos = 0
    /\ pass = 1
    /\ first_graph = NoGraph
    /\ call = NoCall

\* the file the second loop of analyze_codebase is at
Current == walk[pos + 1]

\* one iteration of `for file in files` with a .cs file
AnalyzeCs ==
    /\ pos < Len(walk)
    /\ FileName(Current.path) \notin ignored_files
    /\ IsCs(Current)
    /\ Becomes(ProcessFile(Self, Current))
    /\ pos' = pos + 1
    /\ UNCHANGED <<walk, pass, first_graph, call>>

\* a variant in which the error of a lock file that json.loads rejects is not
\* caught in the handler: it ends the loop over the listing
AnalyzeDependencyFileUncaught ==
    /\ pos < Len(walk)
    /\ FileName(Current.path) \notin ignored_files
    /\ ~IsCs(Current)
    /\ IsDependencyFile(Current)
    /\ Becomes(ProcessDependencyFile(Self, Current))
    /\ pos' = IF EndsWith(Current.path, "packages.lock.json") /\ ~Current.doc.valid
              THEN Len(walk) ELSE pos + 1
    /\ UNCHANGED <<walk, pass, first_graph, call>>

\* one iteration with a project file, a packages.config or a lock file
AnalyzeDependencyFile ==
    /\ pos < Len(walk)
    /\ FileName(Current.path) \notin ignored_files
    /\ ~IsCs(Current)
    /\ IsDependencyFile(Current)
    /\ Becomes(ProcessDependencyFile(Self, Current))
    /\ pos' = pos + 1
    /\ UNCHANGED <<walk, pass, first_graph, call>>

\* one iteration with a file that is ignored or of no kind the loop handles
AnalyzeOther ==
    /\ pos < Len(walk)
    /\ \/ FileName(Current.path) \in ignored_files
       \/ ~IsCs(Current) /\ ~IsDependencyFile(Current)
    /\ pos' = pos + 1
    /\ UNCHANGED <<objVars, walk, pass, first_graph, call>>

\* the graph as save_graph would write it: the nodes with their attributes
\* and the edges with their relations
Graph == [nodes |-> nodes, edges |-> edges]

\* analyze_codebase is called again on the same object
Reanalyze ==
    /\ pos = Len(walk)
    /\ pass < MaxPasses
    /\ pass' = pass + 1
    /\ pos' = 0
    /\ first_graph' = IF pass = 1 THEN Graph ELSE first_graph
    /\ UNCHANGED <<objVars, walk, call>>

\* a new CSCodeKnowledgeGraph is made for the same directory and
\* analyze_codebase is called on it
Reconstruct ==
    /\ pos = Len(walk)
    /\ pass < MaxPasses
    /\ pass' = pass + 1
    /\ pos' = 0
    /\ first_graph' = IF pass = 1 THEN Graph ELSE first_graph
    /\ Becomes(NewObject)
    /\ UNCHANGED <<walk, call>>

Next ==
    \/ AnalyzeCs
    \/ AnalyzeDependencyFile
    \/ AnalyzeOther
    \/ Reanalyze
    \/ Reconstruct

Spec == Init /\ [][Next]_vars

(***************************************************************************)
(* _extract_block alone: one call, on any text over a small alphabet and   *)
(* any offset into it.                                                     *)
(***************************************************************************)
BlockAlphabet == {"{", "}", "x", "\""}

\* the longest text _extract_block is called on
MaxBlockLen == 5

BlockTexts == UNION {[1..n -> BlockAlphabet] : n \in 1..MaxBlockLen}

ObjectIdle ==
    /\ Is(NewObject)
    /\ walk = <<>>
    /\ pos = 0
    /\ pass = 1
    /\ first_graph = NoGraph

InitBlock ==
    /\ ObjectIdle
    /\ \E content \in BlockTexts : \E start_index \in 1..Len(content) :
          call = [op |-> "_extract_block", content |-> content,
                  start_index |-> start_index, returned |-> FALSE,
                  result |-> <<>>]

ExtractBlockCall ==
    /\ call.op = "_extract_block"
    /\ ~call.returned
    /\ call' = [call EXCEPT !.returned = TRUE,
                            !.result = ExtractBlock(call.content, call.start_index)]
    /\ UNCHANGED <<objVars, walk, pos, pass, first_graph>>

NextBlock == ExtractBlockCall

SpecBlock == InitBlock /\ [][NextBlock]_vars

(***************************************************************************)
(* _parse_parameters and _parse_single_parameter alone: one call, on any   *)
(* short parameter list over a small alphabet or on one of the lists       *)
(* below; _parse_single_parameter on any segment _parse_parameters hands   *)
(* it.                                                                     *)
(***************************************************************************)
ParamAlphabet == {"ref", "int", "x", " ", ",", "=", "<", ">"}

\* the longest parameter list drawn from the alphabet
MaxParamLen == 3

\* ref int x, string y = "a"
ExampleParams ==
    <<"ref", " ", "int", " ", "x", ",", " ", "string", " ", "y", " ", "=", " ",
      "\"", "a", "\"">>

ParamExamples ==
    { ExampleParams,
      \* ref int x = 5
      <<"ref", " ", "int", " ", "x", " ", "=", " ", "5">>,
      \* int x = 5, int y
      <<"int", " ", "x", " ", "=", " ", "5", ",", " ", "int", " ", "y">>,
      \* bool f = 1 > 0, int y
      <<"bool", " ", "f", " ", "=", " ", "1", " ", ">", " ", "0", ",", " ",
        "int", " ", "y">>,
      \* Dictionary<string, int> d, int[] v
      <<"Dictionary", "<", "string", ",", " ", "int", ">", " ", "d", ",", " ",
        "int", "[", "]", " ", "v">> }

ParamTexts ==
    ParamExamples \cup UNION {[1..n -> ParamAlphabet] : n \in 0..MaxParamLen}

Elems(s) == {s[i] : i \in 1..Len(s)}

\* the segments _parse_parameters passes to _parse_single_parameter
ParamSegments ==
    UNION {{d.definition : d \in Elems(ParseParameters(t))} : t \in ParamTexts}

InitParams ==
    /\ ObjectIdle
    /\ \/ \E params_str \in ParamTexts :
             call = [op |-> "_parse_parameters", params_str |-> params_str,
                     returned |-> FALSE, result |-> <<>>]
       \/ \E param \in ParamSegments :
             call = [op |-> "_parse_single_parameter", param |-> param,
                     returned |-> FALSE, result |-> <<>>]

ParseParametersCall ==
    /\ call.op = "_parse_parameters"
    /\ ~call.returned
    /\ call' = [call EXCEPT !.returned = TRUE,
                            !.result = ParseParameters(call.params_str)]
    /\ UNCHANGED <<objVars, walk, pos, pass, first_graph>>

ParseSingleParameterCall ==
    /\ call.op = "_parse_single_parameter"
    /\ ~call.returned
    /\ call' = [call EXCEPT !.returned = TRUE,
                            !.result = ParseSingleParameter(call.param)]
    /\ UNCHANGED <<objVars, walk, pos, pass, first_graph>>

NextParams ==
    \/ ParseParametersCall
    \/ ParseSingleParameterCall

SpecParams == InitParams /\ [][NextParams]_vars

(***************************************************************************)
(* Properties.                                                             *)
(***************************************************************************)
\* the .cs files the object has read
AnalyzedCs == {f \in Files : IsCs(f) /\ f.path \in analyzed_files}

FileNode(f) == <<"File: ">> \o f.path

\* dictionary d has key k with value v
Has(d, k, v) == k \in DOMAIN d /\ d[k] = v

ClassNode(name) == <<"Class: ">> \o name

\* ---- C1 ----------------------------------------------------------------
RunOfHelper == MethodNode(<<"Run">>, ClassNode(<<"Helper">>))

\* the file of the listing that declares Helper.Run first
FirstDeclaringRun ==
    walk[CHOOSE i \in 1..Len(walk) :
            /\ walk[i] \in {HelperCs, TwoHelpersCs}
            /\ \A j \in 1..(i - 1) : walk[j] \notin {HelperCs, TwoHelpersCs}]

NodesKeepAttributes ==
    \A k \in DOMAIN nodes : k \in DOMAIN nodes' /\ nodes'[k] = nodes[k]

\* C1: node upsert is first-write-wins.  No step on a graph removes a node
\* or changes an attribute of a node that is there, whatever the step meets
\* again (a stub met by its full declaration included); and where one file
\* declares Helper.Run twice, with two return types, the method node has the
\* return type of the first declaration the listing reaches.
C1_FirstWriteWins ==
    /\ [][Reconstruct \/ NodesKeepAttributes]_vars
    /\ [](RunOfHelper \in DOMAIN nodes =>
            Has(nodes[RunOfHelper], "return_type",
                IF FirstDeclaringRun = HelperCs THEN <<"int">> ELSE <<"void">>))

\* Base was made as a stub of kind and name by `Helper : Base`, then met by
\* its full declaration: it is still the stub, and its namespace contains it
C1_StubMetByDeclaration ==
    /\ ClassNode(<<"Base">>) \in DOMAIN nodes
    /\ DOMAIN nodes[ClassNode(<<"Base">>)] = {"type", "name"}
    /\ <<NamespaceNode(<<"Lib">>), ClassNode(<<"Base">>), "CONTAINS_CLASS">> \in edges

\* ---- C2 ----------------------------------------------------------------
OneEdgePerPair ==
    \A e1, e2 \in edges : e1[1] = e2[1] /\ e1[2] = e2[2] => e1 = e2

\* the using directives, the namespace declarations and the package
\* references that the patterns find in a file
UsingsOf(f) == FindIter([s \in DOMAIN f.text |-> UsingAt(f.text, s)], 1)

NamespacesOf(f) == FindIter([s \in DOMAIN f.text |-> NamespaceAt(f.text, s)], 1)

PackageReferencesOf(f) ==
    FindIter([s \in DOMAIN f.text |-> PackageReferenceAt(f.text, s)], 1)

UsedNamespaces(f) == {m.namespace : m \in Elems(UsingsOf(f))}

DeclaredNamespaces(f) == {m.name : m \in Elems(NamespacesOf(f))}

\* _process_file adds the USES_NAMESPACE edges of a file before its
\* CONTAINS_NAMESPACE edges
NamespaceEdgeIsLastWritten ==
    \A f \in AnalyzedCs :
       /\ \A n \in DeclaredNamespaces(f) :
             <<FileNode(f), NamespaceNode(n), "CONTAINS_NAMESPACE">> \in edges
       /\ \A n \in UsedNamespaces(f) \ DeclaredNamespaces(f) :
             <<FileNode(f), NamespaceNode(n), "USES_NAMESPACE">> \in edges

\* C2: the edge store is a simple directed graph with last-write-wins
\* labels.  There is at most one edge per ordered pair of nodes; the edge
\* from a file to a namespace it both uses and declares has the relation
\* written last, CONTAINS_NAMESPACE; and the edges written for one file
\* change no edge that was there.
C2_SimpleDigraphLastWriteWins ==
    /\ [](OneEdgePerPair /\ NamespaceEdgeIsLastWritten)
    /\ [][Reconstruct \/ edges \subseteq edges']_vars

\* a.cs uses and declares Acme.Core: the one edge says CONTAINS_NAMESPACE
C2_UsedAndDeclared ==
    /\ HelperCs \in AnalyzedCs
    /\ <<"Acme", ".", "Core">> \in UsedNamespaces(HelperCs) \cap DeclaredNamespaces(HelperCs)
    /\ {e \in edges : e[1] = FileNode(HelperCs)
                      /\ e[2] = NamespaceNode(<<"Acme", ".", "Core">>)}
         = {<<FileNode(HelperCs), NamespaceNode(<<"Acme", ".", "Core">>),
              "CONTAINS_NAMESPACE">>}

\* ---- C3 ----------------------------------------------------------------
IsKind(n, kind) == n \in DOMAIN nodes /\ Has(nodes[n], "type", kind)

HelperClasses == {c \in DOMAIN nodes : IsKind(c, "class") /\ Has(nodes[c], "name", <<"Helper">>)}

\* C3: once b.cs is read (Helper in N1 and Helper in N2, each with a method
\* Run), there are two method nodes Run, each the method of its own class
\* Helper, and class_methods lists Run under two classes.
C3_TwoHelpersTwoRuns ==
    TwoHelpersCs \in AnalyzedCs =>
       /\ Cardinality({m \in DOMAIN nodes :
              /\ IsKind(m, "method")
              /\ Has(nodes[m], "name", <<"Run">>)
              /\ \E c \in HelperClasses : <<c, m, "HAS_METHOD">> \in edges}) >= 2
       /\ Cardinality({c \in DOMAIN class_methods :
              <<"Run">> \in Elems(class_methods[c])}) >= 2

\* ---- C4 ----------------------------------------------------------------
\* a block without its two braces
Interior(block) == SubSeq(block, 2, Len(block) - 1)

\* C4: for every namespace declaration of a file read, the body handed to
\* the class, interface, enum and struct recognizers is the balanced-brace
\* region of the namespace, from its opening brace to the matching closing
\* brace; so the class Other, declared inside the braces of N2 after a
\* nested brace pair, is scanned.
C4_NamespaceBodyIsBalancedRegion ==
    /\ \A f \in AnalyzedCs : \A m \in Elems(NamespacesOf(f)) :
          m.body = Interior(ExtractBlock(f.text, m.brace))
    /\ TwoHelpersCs \in AnalyzedCs => ClassNode(<<"Other">>) \in DOMAIN nodes

\* ---- C5 ----------------------------------------------------------------
\* the pieces of s between its commas
CommaSegments(s) ==
    {SubSeq(s, ab[1], ab[2]) :
       ab \in {x \in (1..(Len(s) + 1)) \X (0..Len(s)) :
                 /\ x[1] <= x[2] + 1
                 /\ x[1] = 1 \/ s[x[1] - 1] = ","
                 /\ x[2] = Len(s) \/ s[x[2] + 1] = ","
                 /\ \A i \in x[1]..x[2] : s[i] # ","}}

\* the class declarations of file f that _process_classes is given
ClassDeclarations(f) ==
    UNION {Elems(FindIter([s \in DOMAIN m.body |-> ClassAt(m.body, s)], 1)) :
             m \in Elems(NamespacesOf(f))}

\* C5: for every class declaration with an inheritance list that the class
\* recognizer has processed, each base name of the list has a node of kind
\* class with that name, and the declaring class has an INHERITS edge to it,
\* whether or not the base is declared anywhere.
C5_BasesHaveNodesAndEdges ==
    \A f \in AnalyzedCs : \A d \in ClassDeclarations(f) :
       d.inherits.some =>
          \A seg \in CommaSegments(d.inherits.value) :
             LET base == Strip(seg)
             IN  /\ IsKind(ClassNode(base), "class")
                 /\ Has(nodes[ClassNode(base)], "name", base)
                 /\ <<ClassNode(d.name), ClassNode(base), "INHERITS">> \in edges

\* Helper : Base, IRun was processed and nothing declares IRun as a class:
\* the second base is a stub with an INHERITS edge
C5_UndeclaredSecondBase ==
    /\ \E d \in ClassDeclarations(HelperCs) :
          d.inherits.some /\ Cardinality(CommaSegments(d.inherits.value)) = 2
    /\ HelperCs \in AnalyzedCs
    /\ DOMAIN nodes[ClassNode(<<"IRun">>)] = {"type", "name"}
    /\ <<ClassNode(<<"Helper">>), ClassNode(<<"IRun">>), "INHERITS">> \in edges

\* ---- C6 ----------------------------------------------------------------
Count(t, a, b, chars) == Cardinality({j \in a..b : t[j] \in chars})

\* +1 per '{' and -1 per '}' over t[a..b]
BraceDepth(t, a, b) == Count(t, a, b, {"{"}) - Count(t, a, b, {"}"})

\* C6: called on an offset that holds an opening brace, _extract_block
\* returns the text from that offset to the first position where the brace
\* depth is back to zero, and the whole remainder when it never is.
C6_BlockEndsWhereDepthReturnsToZero ==
    (call.op = "_extract_block" /\ call.returned
       /\ call.content[call.start_index] = "{") =>
    LET t == call.content
        s == call.start_index
        closes == {k \in s..Len(t) : BraceDepth(t, s, k) = 0}
    IN  IF closes = {}
        THEN call.result = SubSeq(t, s, Len(t))
        ELSE call.result = SubSeq(t, s, CHOOSE k \in closes : \A j \in closes : k <= j)

\* a block with a nested pair, taken from inside a text
C6_NestedBlock ==
    /\ call.op = "_extract_block"
    /\ call.returned
    /\ call.start_index = 2
    /\ call.result = <<"{", "{", "}", "}">>

\* ---- C7 ----------------------------------------------------------------
\* openers less closers over t[1..j]
BracketBalance(t, j) ==
    Count(t, 1, j, {"<", "(", "[", "{"}) - Count(t, 1, j, {">", ")", "]", "}"})

\* how many brackets are open before position i: a closer that closes
\* nothing opens nothing
OpenBrackets(t, i) ==
    LET lows == {0} \cup {BracketBalance(t, j) : j \in 1..(i - 1)}
    IN  BracketBalance(t, i - 1) - (CHOOSE l \in lows : \A m \in lows : l <= m)

TopLevelCommas(t) == {i \in 1..Len(t) : t[i] = "," /\ OpenBrackets(t, i) = 0}

\* the trimmed pieces of t between its top-level commas, in order, without
\* the empty ones
TopLevelSegments(t) ==
    LET top == TopLevelCommas(t)
        n == Cardinality(top)
        cut(k) == CHOOSE c \in top : Cardinality({d \in top : d < c}) = k - 1
        piece(k) == SubSeq(t, IF k = 1 THEN 1 ELSE cut(k - 1) + 1,
                              IF k = n + 1 THEN Len(t) ELSE cut(k) - 1)
    IN  SelectSeq([k \in 1..(n + 1) |-> Strip(piece(k))], LAMBDA seg : seg # <<>>)

\* C7: _parse_parameters splits the list at exactly its top-level commas and
\* returns, in order, one descriptor per non-empty trimmed segment (none for
\* the empty list); `ref int x, string y = "a"` gives {modifier ref, type
\* int, name x} and {type string, name y, default "a"}.
C7_SplitsAtTopLevelCommas ==
    (call.op = "_parse_parameters" /\ call.returned) =>
       /\ [k \in 1..Len(call.result) |-> call.result[k].definition]
            = TopLevelSegments(call.params_str)
       /\ call.params_str = ExampleParams =>
            /\ Len(call.result) = 2
            /\ Has(call.result[1], "modifier", <<"ref">>)
            /\ Has(call.result[1], "type", <<"int">>)
            /\ Has(call.result[1], "name", <<"x">>)
            /\ "default" \notin DOMAIN call.result[1]
            /\ "modifier" \notin DOMAIN call.result[2]
            /\ Has(call.result[2], "type", <<"string">>)
            /\ Has(call.result[2], "name", <<"y">>)
            /\ Has(call.result[2], "default", <<"\"", "a", "\"">>)

\* ---- C8 ----------------------------------------------------------------
\* the expression of a trailing `= expression` of a segment whose text
\* before the '=' is words and blanks (a name, a type and a name, a
\* modifier, a type and a name); <<>> when the segment has none
TrailingDefault(param) ==
    LET e == IndexFrom(param, "=", 1)
    IN  IF e = 0 \/ Strip(SubSeq(param, 1, e - 1)) = <<>> THEN <<>>
        ELSE IF \E i \in 1..(e - 1) : ~IsWord(param[i]) /\ ~IsWs(param[i]) THEN <<>>
        ELSE Strip(SubSeq(param, e + 1, Len(param)))

\* C8: _parse_single_parameter stores the expression of a trailing
\* `= expression` as default whichever way the segment was read: with a
\* leading modifier, as a plain type and name, or whole as the name.
C8_DefaultInEveryBranch ==
    (call.op = "_parse_single_parameter" /\ call.returned
       /\ TrailingDefault(call.param) # <<>>) =>
    Has(call.result, "default", TrailingDefault(call.param))

\* ---- C9 ----------------------------------------------------------------
\* the step reads project file f for the first time
ReadsProject(f) ==
    /\ pos < Len(walk)
    /\ pos' = pos + 1
    /\ f = walk[pos + 1]
    /\ EndsWith(f.path, ".csproj")
    /\ f.readable
    /\ f.path \notin analyzed_files

\* the package names that entries ms give two versions
NamedTwice(ms) ==
    {m.package_name : m \in {x \in Elems(ms) :
        \E y \in Elems(ms) : y.package_name = x.package_name /\ y.version # x.version}}

FirstVersion(ms, package_name) ==
    ms[CHOOSE i \in 1..Len(ms) :
          /\ ms[i].package_name = package_name
          /\ \A j \in 1..(i - 1) : ms[j].package_name # package_name].version

Reinvoked(f) ==
    IF IsCs(f) THEN ProcessContents(Self, f.text, FileNode(f))
    ELSE ProcessDependencyFile([Self EXCEPT !.analyzed_files = @ \ {f.path}], f)

\* C10: extraction is idempotent on the graph.  When a later pass over the
\* same listing is done, on a new object or on the object of the first
\* pass, the nodes with their attributes and the edges with their relations
\* are those of the first pass; and on top of the graph the first pass
\* produced, running the recognizers of any file of the listing again
\* changes no node and no edge.
C10_SecondPassSameGraph ==
    /\ (pass > 1 /\ pos = Len(walk)) => Graph = first_graph
    /\ (pass = 1 /\ pos = Len(walk)) =>
          \A f \in Elems(walk) : f.path \in analyzed_files =>
             LET again == Reinvoked(f)
             IN  again.nodes = nodes /\ again.edges = edges

\* a second pass is done over a listing in which a full declaration of Base
\* follows the file that made Base as a stub
C10_SecondPassDone ==
    /\ pass = 2
    /\ pos = Len(walk)
    /\ walk = <<HelperCs, BaseCs>>
    /\ first_graph # NoGraph
    /\ Graph = first_graph

\* ---- C11 ---------------------------------------------------------------
\* the ordered pairs of nodes that an edge of es joins
Pairs(es) == {<<e[1], e[2]>> : e \in es}

\* the step is one iteration of the loop over the listing
FileStep == pos' = pos + 1

\* the file the step read could not be opened, or is a lock file that
\* json.loads rejects: the handler prints the error and returns
CaughtError(f) ==
    \/ IsCs(f) /\ ~f.readable
    \/ EndsWith(f.path, "packages.lock.json") /\ ~f.doc.valid

\* C11: the graph only grows during a run.  Over every iteration of the
\* loop over the listing (a .cs file, a dependency file, a file whose
\* handler ends in a caught error) and over the start of a later pass on the
\* same object, every node key there was is still there and every ordered
\* pair of nodes an edge joined is still joined.
C11_GraphOnlyGrows ==
    [][(FileStep \/ Reanalyze) =>
          /\ DOMAIN nodes \subseteq DOMAIN nodes'
          /\ Pairs(edges) \subseteq Pairs(edges')]_vars

\* a file was read into the graph, and the next file of the listing ended
\* in a caught error; the graph still has the first file's nodes and edges
C11_GrownThenCaughtError ==
    /\ pass = 1
    /\ pos = 2
    /\ walk[1] = HelperCs
    /\ CaughtError(walk[2])
    /\ FileNode(HelperCs) \in DOMAIN nodes
    /\ <<ClassNode(<<"Helper">>), ClassNode(<<"Base">>)>> \in Pairs(edges)

\* ---- C12 ---------------------------------------------------------------
\* the declarations of one kind that the pattern of the kind finds in the
\* body of a namespace
DeclarationsIn(kind, body) ==
    CASE kind = "class" -> FindIter([s \in DOMAIN body |-> ClassAt(body, s)], 1)
      [] kind = "interface" -> FindIter([s \in DOMAIN body |-> InterfaceAt(body, s)], 1)
      [] kind = "struct" -> FindIter([s \in DOMAIN body |-> StructAt(body, s)], 1)
      [] kind = "enum" -> FindIter([s \in DOMAIN body |-> EnumAt(body, s)], 1)

\* how many declarations of one kind the recognizers process in file f: those
\* the pattern of the kind finds in the bodies of the namespaces of the file
DeclarationsOf(f, kind) ==
    Cardinality(
        UNION {{<<i, j>> :
                   j \in 1..Len(DeclarationsIn(kind, NamespacesOf(f)[i].body))}
               : i \in 1..Len(NamespacesOf(f))})

\* the numbers of declarations of each file of the directory
Declared ==
    [f \in Files |->
        [namespace |-> Len(NamespacesOf(f)),
         class |-> DeclarationsOf(f, "class"),
         interface |-> DeclarationsOf(f, "interface"),
         struct |-> DeclarationsOf(f, "struct"),
         enum |-> DeclarationsOf(f, "enum")]]

\* the sum of count[f] over the files f of fs
RECURSIVE Total(_, _)
Total(count, fs) ==
    IF fs = {} THEN 0
    ELSE count[CHOOSE f \in fs : TRUE]
         + Total(count, fs \ {CHOOSE f \in fs : TRUE})

NodesOfKind(kind) == {n \in DOMAIN nodes : IsKind(n, kind)}

\* C12: the type counters count occurrences, not nodes.  total_namespaces,
\* total_classes, total_interfaces, total_structs and total_enums are each
\* the number of declarations of the kind the recognizers have processed in
\* the files read, a declaration whose node key was already there included.
C12_CountersCountOccurrences ==
    [](/\ total_namespaces = Total([f \in Files |-> Declared[f].namespace], AnalyzedCs)
       /\ total_classes = Total([f \in Files |-> Declared[f].class], AnalyzedCs)
       /\ total_interfaces = Total([f \in Files |-> Declared[f].interface], AnalyzedCs)
       /\ total_structs = Total([f \in Files |-> Declared[f].struct], AnalyzedCs)
       /\ total_enums = Total([f \in Files |-> Declared[f].enum], AnalyzedCs))

\* b.cs declares Helper in two namespaces: two class declarations were
\* counted, and the graph has fewer class nodes than the count
C12_MoreCountedThanNodes ==
    /\ TwoHelpersCs \in AnalyzedCs
    /\ Declared[TwoHelpersCs].class >= 2
    /\ total_classes > Cardinality(NodesOfKind("class"))

\* ---- C13 ---------------------------------------------------------------
DependencyFileNode(f) == <<"Dependency File: ">> \o f.path

\* a lock file whose text json.loads rejects
RejectedLock(f) == EndsWith(f.path, "packages.lock.json") /\ f.readable /\ ~f.doc.valid

\* the step hands file f to its handler
Reads(f) ==
    /\ pos < Len(walk)
    /\ walk[pos + 1] = f
    /\ FileName(f.path) \notin ignored_files
    /\ FileStep

\* a file of the listing that the loop hands to a handler that can read it
Extractable(f) ==
    /\ FileName(f.path) \notin ignored_files
    /\ IsCs(f) \/ IsDependencyFile(f)
    /\ f.readable

TypeKinds == {"class", "struct", "interface"}

TypeLabel(kind) ==
    CASE kind = "class" -> <<"Class: ">>
      [] kind = "struct" -> <<"Struct: ">>
      [] kind = "interface" -> <<"Interface: ">>

\* the methods that the pattern of the kind finds in the block of a type
MethodsIn(kind, block) ==
    IF kind = "interface"
    THEN FindIter([s \in DOMAIN block |-> InterfaceMethodAt(block, s)], 1)
    ELSE FindIter([s \in DOMAIN block |-> MethodAt(block, s)], 1)

\* the names of the methods of declaration d of a kind in a namespace body,
\* in source order
MethodNamesOf(kind, body, d) ==
    [k \in 1..Len(MethodsIn(kind, ExtractBlock(body, d.end - 1))) |->
        MethodsIn(kind, ExtractBlock(body, d.end - 1))[k].name]

\* the type declarations the recognizers have processed, each with the key of
\* its node and the names of its methods in source order
ProcessedTypes ==
    UNION {UNION {UNION {
        {[owner |-> TypeLabel(kind) \o d.name, kind |-> kind,
          names |-> MethodNamesOf(kind, NamespacesOf(f)[i].body, d)]
         : d \in Elems(DeclarationsIn(kind, NamespacesOf(f)[i].body))}
        : kind \in TypeKinds}
        : i \in 1..Len(NamespacesOf(f))}
        : f \in AnalyzedCs}

\* sequence s is a run of consecutive elements of sequence t
IsRunOf(s, t) ==
    \E off \in 0..(Len(t) - Len(s)) : SubSeq(t, off + 1, off + Len(s)) = s

\* C14: class_methods maps each type node that declares methods, an
\* interface like a class or a struct, to the names of its methods in source
\* order.  Every method node attached to a type by a HAS_METHOD edge has its
\* name listed under that type, and the names of each processed declaration
\* stand under its type in the order of the source.
C14_EveryTypeListsItsMethods ==
    /\ \A e \in edges : e[3] = "HAS_METHOD" =>
          /\ e[1] \in DOMAIN class_methods
          /\ nodes[e[2]].name \in Elems(class_methods[e[1]])
    /\ \A t \in ProcessedTypes : t.names # <<>> =>
          /\ t.owner \in DOMAIN class_methods
          /\ IsRunOf(t.names, class_methods[t.owner])

\* the same for classes and structs only
ClassesAndStructsListTheirMethods ==
    /\ \A e \in edges : e[3] = "HAS_METHOD" /\ ~IsKind(e[1], "interface") =>
          /\ e[1] \in DOMAIN class_methods
          /\ nodes[e[2]].name \in Elems(class_methods[e[1]])
    /\ \A t \in ProcessedTypes : t.names # <<>> /\ t.kind # "interface" =>
          /\ t.owner \in DOMAIN class_methods
          /\ IsRunOf(t.names, class_methods[t.owner])

\* ---- C15 ---------------------------------------------------------------
\* the type declarations the recognizers have processed, each with the key of
\* its node and the block of its body
ProcessedBlocks ==
    UNION {UNION {UNION {
        {[owner |-> TypeLabel(kind) \o d.name, kind |-> kind,
          block |-> ExtractBlock(NamespacesOf(f)[i].body, d.end - 1)]
         : d \in Elems(DeclarationsIn(kind, NamespacesOf(f)[i].body))}
        : kind \in TypeKinds}
        : i \in 1..Len(NamespacesOf(f))}
        : f \in AnalyzedCs}

\* the members of each sort that the patterns of a class body find in a block
EventsIn(block) == FindIter([s \in DOMAIN block |-> EventAt(block, s)], 1)

FieldsIn(block) == FindIter([s \in DOMAIN block |-> FieldAt(block, s)], 1)

PropertiesIn(block) == FindIter([s \in DOMAIN block |-> PropertyAt(block, s)], 1)

\* every match of ms has its node, attached to the owner by the relation
Attached(owner, label, ms, relation) ==
    \A m \in Elems(ms) :
       /\ MemberNode(label, m.name, owner) \in DOMAIN nodes
       /\ <<owner, MemberNode(label, m.name, owner), relation>> \in edges

\* C15: the body of a class and the body of a struct are each handed to the
\* method, property, field and event recognizers: every method, property,
\* field and event of the body has its node and the edge from the type.  The
\* body of an interface is handed to the recognizers of bodiless methods and
\* of properties only: their nodes are public and abstract, and an interface
\* has no field and no event.
C15_ClassAndStructBodiesAlike ==
    \A t \in ProcessedBlocks :
       IF t.kind = "interface"
       THEN /\ \A e \in edges : e[1] = t.owner =>
                  /\ e[3] \in {"HAS_METHOD", "HAS_PROPERTY", "INHERITS_INTERFACE"}
                  /\ e[3] \in {"HAS_METHOD", "HAS_PROPERTY"} =>
                        /\ Has(nodes[e[2]], "access_modifier", <<"public">>)
                        /\ Has(nodes[e[2]], "modifiers", <<"abstract">>)
            /\ Attached(t.owner, "Method: ", MethodsIn("interface", t.block), "HAS_METHOD")
       ELSE /\ Attached(t.owner, "Method: ", MethodsIn(t.kind, t.block), "HAS_METHOD")
            /\ Attached(t.owner, "Property: ", PropertiesIn(t.block), "HAS_PROPERTY")
            /\ Attached(t.owner, "Field: ", FieldsIn(t.block), "HAS_FIELD")
            /\ Attached(t.owner, "Event: ", EventsIn(t.block), "HAS_EVENT")

\* the same, but for the events of a struct
AlikeButForStructEvents ==
    \A t \in ProcessedBlocks :
       IF t.kind = "interface"
       THEN /\ \A e \in edges : e[1] = t.owner =>
                  /\ e[3] \in {"HAS_METHOD", "HAS_PROPERTY", "INHERITS_INTERFACE"}
                  /\ e[3] \in {"HAS_METHOD", "HAS_PROPERTY"} =>
                        /\ Has(nodes[e[2]], "access_modifier", <<"public">>)
                        /\ Has(nodes[e[2]], "modifiers", <<"abstract">>)
            /\ Attached(t.owner, "Method: ", MethodsIn("interface", t.block), "HAS_METHOD")
       ELSE /\ Attached(t.owner, "Method: ", MethodsIn(t.kind, t.block), "HAS_METHOD")
            /\ Attached(t.owner, "Property: ", PropertiesIn(t.block), "HAS_PROPERTY")
            /\ Attached(t.owner, "Field: ", FieldsIn(t.block), "HAS_FIELD")
            /\ t.kind = "class" =>
                  Attached(t.owner, "Event: ", EventsIn(t.block), "HAS_EVENT")

\* ---- C16 ---------------------------------------------------------------
\* the step reads .cs file f into the graph
ReadsSource(f) == Reads(f) /\ IsCs(f) /\ f.readable /\ f.path \notin analyzed_files

\* the namespace contains a dot
HasDot(namespace) == \E i \in 1..Len(namespace) : namespace[i] = "."

\* the text of the namespace begins with the reserved prefix 'System'
HasReservedPrefix(namespace) == namespace # <<>> /\ namespace[1] \in SystemWords

\* what stands before the first dot of a dotted namespace
FirstSegment(namespace) ==
    SubSeq(namespace, 1,
           (CHOOSE i \in 1..Len(namespace) :
               namespace[i] = "." /\ \A j \in 1..(i - 1) : namespace[j] # ".") - 1)

\* the dependency names that the using directives of file f give
UsingDependencies(f) ==
    {FirstSegment(n) : n \in {u \in UsedNamespaces(f) :
                                 HasDot(u) /\ ~HasReservedPrefix(u)}}

Handled(s, f) ==
    IF FileName(f.path) \in ignored_files THEN s
    ELSE IF IsCs(f) THEN ProcessFile(s, f)
    ELSE IF IsDependencyFile(f) THEN ProcessDependencyFile(s, f)
    ELSE s

\* the object after the loop has gone over listing w from its k-th file on
RECURSIVE RunOver(_, _, _)
RunOver(s, w, k) ==
    IF k > Len(w) THEN s ELSE RunOver(Handled(s, w[k]), w, k + 1)

Reversed(w) == [i \in 1..Len(w) |-> w[Len(w) + 1 - i]]

\* the shape of a graph: its node keys and its edges with their relations
Shape(s) == [keys |-> DOMAIN s.nodes, edges |-> s.edges]

\* the shape of the graph that each file of the directory gives when it is
\* read alone into a new object
Alone == [f \in Files |-> Shape(Handled(NewObject, f))]

\* the namespaces each file of the directory uses, and those it declares
Uses == [f \in Files |-> UsedNamespaces(f)]

Declares == [f \in Files |-> DeclaredNamespaces(f)]

\* the relation that the kinds of the keys fix for an edge from u to v that
\* is not an edge from a file to a namespace
RelationOf(u, v) ==
    CASE v[1] = "Method: " -> "HAS_METHOD"
      [] v[1] = "Property: " -> "HAS_PROPERTY"
      [] v[1] = "Event: " -> "HAS_EVENT"
      [] v[1] = "Field: " -> "HAS_FIELD"
      [] v[1] = "EnumMember: " -> "HAS_MEMBER"
      [] u[1] = "Namespace: " /\ v[1] = "Class: " -> "CONTAINS_CLASS"
      [] u[1] = "Namespace: " /\ v[1] = "Interface: " -> "CONTAINS_INTERFACE"
      [] u[1] = "Namespace: " /\ v[1] = "Enum: " -> "CONTAINS_ENUM"
      [] u[1] = "Namespace: " /\ v[1] = "Struct: " -> "CONTAINS_STRUCT"
      [] u[1] = "Class: " /\ v[1] = "Class: " -> "INHERITS"
      [] u[1] = "Struct: " /\ v[1] = "Struct: " -> "INHERITS"
      [] u[1] = "Interface: " /\ v[1] = "Interface: " -> "INHERITS_INTERFACE"
      [] u[1] = "Dependency File: " /\ v[1] = "Dependency: " ->
            IF EndsWith(Tail(u), "packages.lock.json")
            THEN "HAS_LOCKED_DEPENDENCY" ELSE "HAS_DEPENDENCY"
      [] OTHER -> "none"

\* C17: the shape of the graph does not depend on the order of the listing.
\* When the loop is done, the node keys are the union of the node keys each
\* file of the listing gives when read alone, and the edges with their
\* relations are the union of the edges each file gives alone: neither union
\* names an order, so every order of the same files ends with the same keys
\* and edges, as the listing read in reverse does.  Every edge that is not
\* from a file to a namespace has the one relation its two keys fix, and an
\* edge from a file to a namespace says CONTAINS_NAMESPACE when the file
\* declares the namespace, used or not, and USES_NAMESPACE otherwise.
C17_ShapeIsOrderIndependent ==
    [](/\ (pass = 1 /\ pos = Len(walk)) =>
             /\ DOMAIN nodes = UNION {Alone[f].keys : f \in Elems(walk)}
             /\ edges = UNION {Alone[f].edges : f \in Elems(walk)}
             /\ Shape(RunOver(NewObject, Reversed(walk), 1)) = Shape(Self)
       /\ \A e \in edges :
             IF e[1][1] = "File: "
             THEN /\ e[2][1] = "Namespace: "
                  /\ e[3] \in {"USES_NAMESPACE", "CONTAINS_NAMESPACE"}
             ELSE e[3] = RelationOf(e[1], e[2])
       /\ \A f \in AnalyzedCs :
             /\ \A n \in Declares[f] :
                   <<FileNode(f), NamespaceNode(n), "CONTAINS_NAMESPACE">> \in edges
             /\ \A n \in Uses[f] \ Declares[f] :
                   <<FileNode(f), NamespaceNode(n), "USES_NAMESPACE">> \in edges)

\* c.cs was read before a.cs, so Base has the attributes of its declaration,
\* which it has not in the reverse order; the keys and the edges are those
\* of the reverse order
C17_SameShapeOtherAttributes ==
    /\ pass = 1
    /\ walk = <<BaseCs, HelperCs>>
    /\ pos = 2
    /\ "access_modifier" \in DOMAIN nodes[ClassNode(<<"Base">>)]
    /\ RunOver(NewObject, Reversed(walk), 1).nodes # nodes
    /\ Shape(RunOver(NewObject, Reversed(walk), 1)) = Shape(Self)

\* ---- C18 ---------------------------------------------------------------
\* the method declarations that the recognizers process in file f, each with
\* its place (namespace, type declaration, method), the key of its owner, the
\* key of its node and its match
MethodOccurrences(f) ==
    UNION {UNION {UNION {
        {[at |-> <<i, j, k>>, kind |-> kind,
          owner |-> TypeLabel(kind) \o DeclarationsIn(kind, NamespacesOf(f)[i].body)[j].name,
          key |-> MethodNode(
                    MethodsIn(kind, ExtractBlock(NamespacesOf(f)[i].body,
                        DeclarationsIn(kind, NamespacesOf(f)[i].body)[j].end - 1))[k].name,
                    TypeLabel(kind) \o DeclarationsIn(kind, NamespacesOf(f)[i].body)[j].name),
          match |-> MethodsIn(kind, ExtractBlock(NamespacesOf(f)[i].body,
                        DeclarationsIn(kind, NamespacesOf(f)[i].body)[j].end - 1))[k]]
         : k \in 1..Len(MethodsIn(kind, ExtractBlock(NamespacesOf(f)[i].body,
                        DeclarationsIn(kind, NamespacesOf(f)[i].body)[j].end - 1)))}
        : j \in 1..Len(DeclarationsIn(kind, NamespacesOf(f)[i].body))}
        : kind \in TypeKinds}
        : i \in 1..Len(NamespacesOf(f))}

\* occurrence a is processed before occurrence b of the same kind
Earlier(a, b) ==
    \/ a.at[1] < b.at[1]
    \/ a.at[1] = b.at[1] /\ a.at[2] < b.at[2]
    \/ a.at[1] = b.at[1] /\ a.at[2] = b.at[2] /\ a.at[3] < b.at[3]

\* the occurrences of key in file f; the first and the last of them
OccurrencesOf(f, key) == {o \in MethodOccurrences(f) : o.key = key}

FirstOccurrence(f, key) ==
    CHOOSE o \in OccurrencesOf(f, key) :
        \A p \in OccurrencesOf(f, key) : p = o \/ Earlier(o, p)

LastOccurrence(f, key) ==
    CHOOSE o \in OccurrencesOf(f, key) :
        \A p \in OccurrencesOf(f, key) : p = o \/ Earlier(p, o)

\* how many times name stands in the list of owner in class_methods cm
Listed(cm, owner, name) ==
    IF owner \in DOMAIN cm
    THEN Cardinality({i \in DOMAIN cm[owner] : cm[owner][i] = name}) ELSE 0

\* the node of the key keeps what it had, or has what the first occurrence
\* gives; the metadata have what the last occurrence gives
FirstInNodeLastInMetadata(f, key) ==
    /\ IsKind(key, "method")'
    /\ nodes'[key].return_type =
          IF key \in DOMAIN nodes THEN nodes[key].return_type
          ELSE Strip(FirstOccurrence(f, key).match.type)
    /\ nodes'[key].parameters =
          IF key \in DOMAIN nodes THEN nodes[key].parameters
          ELSE ParseParameters(FirstOccurrence(f, key).match.parameters)
    /\ Has(method_returns', key, Strip(LastOccurrence(f, key).match.type))
    /\ Has(method_params', key,
           ParseParameters(LastOccurrence(f, key).match.parameters))

\* the name of every occurrence is appended to the list of its owner
AppendedPerOccurrence(f, o) ==
    Listed(class_methods', o.owner, o.match.name) =
        Listed(class_methods, o.owner, o.match.name)
        + Cardinality(OccurrencesOf(f, o.key))

\* the file meets the key twice or more, or the graph has met it before
MetMoreThanOnce(f, key) ==
    Cardinality(OccurrencesOf(f, key)) > 1 \/ key \in DOMAIN nodes

\* C18: method metadata and node attributes.  method_params and
\* method_returns have the same keys, the method nodes of the graph.  Over
\* the step that reads a file, for every method key met more than once: the
\* node keeps the parameters and the return type it had or gets those of the
\* first occurrence, method_params and method_returns get those of the last
\* occurrence, and class_methods lists the name under the owner once more
\* per occurrence.
C18_MetadataOfMethodKeys ==
    /\ [](/\ DOMAIN method_params = DOMAIN method_returns
          /\ DOMAIN method_params = NodesOfKind("method"))
    /\ [][\A f \in Files : ReadsSource(f) =>
             \A o \in MethodOccurrences(f) : MetMoreThanOnce(f, o.key) =>
                /\ FirstInNodeLastInMetadata(f, o.key)
                /\ AppendedPerOccurrence(f, o)]_vars

\* the same, with class_methods left to the methods of classes and structs
MetadataOfMethodKeysButInterfaceLists ==
    /\ [](/\ DOMAIN method_params = DOMAIN method_returns
          /\ DOMAIN method_params = NodesOfKind("method"))
    /\ [][\A f \in Files : ReadsSource(f) =>
             \A o \in MethodOccurrences(f) : MetMoreThanOnce(f, o.key) =>
                /\ FirstInNodeLastInMetadata(f, o.key)
                /\ o.kind # "interface" => AppendedPerOccurrence(f, o)]_vars

\* b.cs met the key of Helper.Run twice
TwiceMetKey ==
    /\ walk = <<TwoHelpersCs>>
    /\ pos = 1
    /\ Cardinality(OccurrencesOf(TwoHelpersCs, RunOfHelper)) = 2
    /\ Has(nodes[RunOfHelper], "return_type", <<"void">>)
    /\ Has(method_returns, RunOfHelper, <<"int">>)
    /\ class_methods[ClassNode(<<"Helper">>)] = <<<<"Run">>, <<"Run">>>>

\* ---- C19 ---------------------------------------------------------------
\* the kinds of node and the relations of edge
Kinds ==
    {"file", "namespace", "class", "interface", "struct", "enum",
     "enum_member", "method", "property", "event", "field",
     "dependency_file", "dependency"}

Relations ==
    {"USES_NAMESPACE", "CONTAINS_NAMESPACE", "CONTAINS_CLASS",
     "CONTAINS_INTERFACE", "CONTAINS_ENUM", "CONTAINS_STRUCT", "INHERITS",
     "INHERITS_INTERFACE", "HAS_METHOD", "HAS_PROPERTY", "HAS_EVENT",
     "HAS_FIELD", "HAS_MEMBER", "HAS_DEPENDENCY", "HAS_LOCKED_DEPENDENCY"}

\* a member node of a kind under label is keyed under its owner u
OwnedBy(v, kind, label, u) ==
    /\ IsKind(v, kind)
    /\ "name" \in DOMAIN nodes[v]
    /\ v = MemberNode(label, nodes[v].name, u)

\* the relation of an edge from u to v agrees with the kinds of u and v
Agrees(u, v, relation) ==
    CASE relation \in {"USES_NAMESPACE", "CONTAINS_NAMESPACE"} ->
            IsKind(u, "file") /\ IsKind(v, "namespace")
      [] relation = "CONTAINS_CLASS" -> IsKind(u, "namespace") /\ IsKind(v, "class")
      [] relation = "CONTAINS_INTERFACE" ->
            IsKind(u, "namespace") /\ IsKind(v, "interface")
      [] relation = "CONTAINS_ENUM" -> IsKind(u, "namespace") /\ IsKind(v, "enum")
      [] relation = "CONTAINS_STRUCT" -> IsKind(u, "namespace") /\ IsKind(v, "struct")
      [] relation = "INHERITS" ->
            \/ IsKind(u, "class") /\ IsKind(v, "class")
            \/ IsKind(u, "struct") /\ IsKind(v, "struct")
      [] relation = "INHERITS_INTERFACE" ->
            IsKind(u, "interface") /\ IsKind(v, "interface")
      [] relation = "HAS_METHOD" ->
            /\ \E kind \in TypeKinds : IsKind(u, kind)
            /\ OwnedBy(v, "method", "Method: ", u)
      [] relation = "HAS_PROPERTY" ->
            /\ \E kind \in TypeKinds : IsKind(u, kind)
            /\ OwnedBy(v, "property", "Property: ", u)
      [] relation = "HAS_EVENT" ->
            /\ IsKind(u, "class") \/ IsKind(u, "struct")
            /\ OwnedBy(v, "event", "Event: ", u)
      [] relation = "HAS_FIELD" ->
            /\ IsKind(u, "class") \/ IsKind(u, "struct")
            /\ OwnedBy(v, "field", "Field: ", u)
      [] relation = "HAS_MEMBER" ->
            IsKind(u, "enum") /\ OwnedBy(v, "enum_member", "EnumMember: ", u)
      [] relation \in {"HAS_DEPENDENCY", "HAS_LOCKED_DEPENDENCY"} ->
            IsKind(u, "dependency_file") /\ IsKind(v, "dependency")
      [] OTHER -> FALSE

\* C19: the graph is well formed.  Every node has a type, one of the kinds
\* (so no node was made by add_edge alone, without attributes); every edge
\* joins two nodes of the graph with one of the relations; and the relation
\* agrees with the kinds of the two nodes: INHERITS joins two classes or two
\* structs, INHERITS_INTERFACE two interfaces, HAS_METHOD a class, struct or
\* interface and a method keyed under it, and so on for each relation.
C19_GraphWellFormed ==
    [](/\ \A n \in DOMAIN nodes :
             "type" \in DOMAIN nodes[n] /\ nodes[n].type \in Kinds
       /\ \A e \in edges :
             /\ e[1] \in DOMAIN nodes
             /\ e[2] \in DOMAIN nodes
             /\ e[3] \in Relations
             /\ Agrees(e[1], e[2], e[3]))

\* a.cs and e.cs were read: Helper inherits from IRun, a base that is not
\* declared and was made a class, and Point from IShape, made a struct
C19_BasesOfTheKindOfTheHeir ==
    /\ {HelperCs, PointCs} \subseteq AnalyzedCs
    /\ <<ClassNode(<<"Helper">>), ClassNode(<<"IRun">>), "INHERITS">> \in edges
    /\ IsKind(ClassNode(<<"IRun">>), "class")
    /\ <<<<"Struct: ", "Point">>, <<"Struct: ", "IShape">>, "INHERITS">> \in edges
    /\ IsKind(<<"Struct: ", "IShape">>, "struct")
    /\ \E e \in edges : e[3] = "HAS_METHOD" /\ e[1] = <<"Struct: ", "Point">>

====
